---------------------------- MODULE Spec2Model ----------------------------
(***************************************************************************)
(* Model of the gait-cycle detection and phase-statistics pipeline of      *)
(* motion_analysis_app_v1 (utils/gait_analysis.py, utils/math_utils.py,    *)
(* src/analysis_engine.py, config/constants.py).                           *)
(*                                                                         *)
(* Numbers.  A float is modelled as a record [k, n, d]: k = "fin" with the *)
(* exact rational n/d (d > 0, lowest terms), or k in {"nan","pinf","ninf"} *)
(* with n = 0, d = 1.  Arithmetic is exact rational arithmetic extended    *)
(* with the IEEE-754 rules for NaN and the infinities; binary rounding     *)
(* error of the floats is not modelled.                                    *)
(***************************************************************************)
EXTENDS Integers, Sequences, FiniteSets, TLC

VARIABLES
    pc,                 \* which operation ran last
    state_arr,          \* the state column passed in (sequence of floats)
    data_arr,           \* the data column passed in (sequence of floats)
    min_cycle_length,   \* find_gait_cycles argument
    max_cycle_length,   \* find_gait_cycles argument
    cycles,             \* boundary list (result of find_gait_cycles / argument)
    start_idx,          \* resample_cycle argument
    end_idx,            \* resample_cycle argument
    n_points,           \* resample_cycle argument
    resampled,          \* result of resample_cycle
    STATISTICS_CONFIG,  \* config/constants.py module-level dict
    VALIDATION_CONFIG,  \* config/constants.py module-level dict
    phase_stats,        \* result of the last calculate_dynamic_gait_phase_statistics
    prev_stats,         \* result of the call before the last one
    last_config,        \* STATISTICS_CONFIG at the last call
    prev_config,        \* STATISTICS_CONFIG at the call before the last one
    n_calls,            \* number of calls made so far (capped)
    stat_args,          \* the (ddof, remove_outliers) arguments of math_utils calls
    math_out,           \* results of the math_utils functions on data_arr
    validation,         \* result of validate_state_data on state_arr
    file_paths,         \* app.file_paths: the paths of the loaded files
    dataframes,         \* app.dataframes: the loaded tables, column name -> column
    selected_vars,      \* the variable names in the selection list
    file_idx,           \* analyze_data: number of files finished
    var_idx,            \* analyze_data: number of variables finished in the file
    analysis_results,   \* app.analysis_results
    results_data,       \* app.results_data: the sections of the report text
    faulted,            \* the exceptions raised so far: (file, variable, place)
    scan_cycles,        \* find_gait_cycles: the list its loop has built
    state_cycle,        \* find_state_transitions argument
    phase_ranges,       \* result of find_state_transitions
    normalized_cycles,  \* the normalised cycles of the last phase statistics
    analyze_button,     \* app.analyze_button: its state option
    workers,            \* the analyze_data threads started so far
    reported,           \* the (path, table) pairs of the loop of line 539
    n_loads             \* number of load_files calls so far

\* the variables of the math_utils and validate_state_data calls
callVars == <<stat_args, math_out, validation>>

\* what the functions hold in local variables when they return
\* the widgets and threads of the application window
appVars == <<analyze_button, workers, reported, n_loads>>

localVars ==
    <<scan_cycles, state_cycle, phase_ranges, normalized_cycles>>

\* the variables of analyze_data
batchVars == <<file_paths, dataframes, selected_vars, file_idx, var_idx,
               analysis_results, results_data, faulted>>

vars == <<pc, state_arr, data_arr, min_cycle_length, max_cycle_length, cycles,
          start_idx, end_idx, n_points, resampled, STATISTICS_CONFIG,
          VALIDATION_CONFIG, phase_stats, prev_stats, last_config,
          prev_config, n_calls, stat_args, math_out, validation, file_paths,
          dataframes, selected_vars, file_idx, var_idx, analysis_results,
          results_data, faulted, scan_cycles, state_cycle, phase_ranges,
          normalized_cycles, analyze_button, workers, reported, n_loads>>

-----------------------------------------------------------------------------
(* Bounds of the model *)

MaxStateLen == 5
MaxDataLen == 4
MaxTrialLen == 3
MaxRun == 4
MaxCalls == 3
MaxArrLen == 4

-----------------------------------------------------------------------------
(* Program constants *)

RESAMPLE_POINTS == 101

DefaultMinCycleLength == 10

DefaultMaxCycleLength == 1000

DefaultMinCycles == 2

-----------------------------------------------------------------------------
(* Floats *)

Abs(i) == IF i < 0 THEN -i ELSE i

RECURSIVE Gcd(_, _)
Gcd(a, b) == IF b = 0 THEN a ELSE Gcd(b, a % b)

Rat(num, den) ==
    LET g == Gcd(Abs(num), Abs(den))
        s == IF (num < 0) # (den < 0) THEN -1 ELSE 1
    IN  [k |-> "fin", n |-> s * (Abs(num) \div g), d |-> Abs(den) \div g]

FromInt(i) == [k |-> "fin", n |-> i, d |-> 1]

NaN == [k |-> "nan", n |-> 0, d |-> 1]

PInf == [k |-> "pinf", n |-> 0, d |-> 1]

NInf == [k |-> "ninf", n |-> 0, d |-> 1]

isfinite(x) == x.k = "fin"

isnan(x) == x.k = "nan"

isinf(x) == x.k \in {"pinf", "ninf"}

\* sign of a non-NaN float: -1, 0 or 1
Sgn(x) ==
    IF x.k = "pinf" THEN 1
    ELSE IF x.k = "ninf" THEN -1
    ELSE IF x.n > 0 THEN 1 ELSE IF x.n < 0 THEN -1 ELSE 0

InfOfSign(s) == IF s > 0 THEN PInf ELSE NInf

FNeg(x) ==
    IF x.k = "fin" THEN [x EXCEPT !.n = -x.n]
    ELSE IF x.k = "pinf" THEN NInf
    ELSE IF x.k = "ninf" THEN PInf
    ELSE NaN

FAdd(x, y) ==
    IF isnan(x) \/ isnan(y) THEN NaN
    ELSE IF isfinite(x) /\ isfinite(y) THEN
        IF x.d = y.d THEN Rat(x.n + y.n, x.d)
        ELSE LET g == Gcd(x.d, y.d)
             IN  Rat(x.n * (y.d \div g) + y.n * (x.d \div g), (x.d \div g) * y.d)
    ELSE IF isfinite(x) THEN y
    ELSE IF isfinite(y) THEN x
    ELSE IF x.k = y.k THEN x ELSE NaN

FSub(x, y) == FAdd(x, FNeg(y))

FMul(x, y) ==
    IF isnan(x) \/ isnan(y) THEN NaN
    ELSE IF isfinite(x) /\ isfinite(y) THEN
        LET g1 == Gcd(Abs(x.n), y.d)
            g2 == Gcd(Abs(y.n), x.d)
        IN  Rat((x.n \div g1) * (y.n \div g2), (x.d \div g2) * (y.d \div g1))
    ELSE IF Sgn(x) = 0 \/ Sgn(y) = 0 THEN NaN
    ELSE InfOfSign(Sgn(x) * Sgn(y))

\* x / y for a finite y # 0 (the only divisions the program performs on
\* possibly non-finite numerators are by positive index differences)
FDivFin(x, y) ==
    IF isnan(x) THEN NaN
    ELSE IF isfinite(x) THEN Rat(x.n * y.d, x.d * y.n)
    ELSE InfOfSign(Sgn(x) * Sgn(y))

\* x < y; false when either is NaN
FLess(x, y) ==
    IF isnan(x) \/ isnan(y) THEN FALSE
    ELSE IF isfinite(x) /\ isfinite(y) THEN x.n * y.d < y.n * x.d
    ELSE IF x.k = y.k THEN FALSE
    ELSE x.k = "ninf" \/ y.k = "pinf"

FLeq(x, y) == ~isnan(x) /\ ~isnan(y) /\ ~FLess(y, x)

\* IEEE equality: NaN differs from everything, itself included
FEq(x, y) == ~isnan(x) /\ ~isnan(y) /\ x = y

\* floor of a finite float
Floor(x) == x.n \div x.d

\* np.round on a finite float: round half to even
np_round(x) ==
    LET f == Floor(x)
        twice == 2 * (x.n - f * x.d)     \* 2 * fractional part * d
    IN  IF twice < x.d THEN f
        ELSE IF twice > x.d THEN f + 1
        ELSE IF f % 2 = 0 THEN f ELSE f + 1

np_clip(i, lo, hi) == IF i < lo THEN lo ELSE IF i > hi THEN hi ELSE i

-----------------------------------------------------------------------------
(* Sequences *)

Range(s) == {s[i] : i \in DOMAIN s}

\* the sequence f, evaluated element by element once
Tuple(f) == SubSeq(f, 1, Len(f))

\* Body(v) with v evaluated once, as a Python assignment or argument does
Let(v, Body(_)) == CHOOSE result \in {Body(x) : x \in {v}} : TRUE

\* s[mask] : the elements of s that satisfy Keep, in order
FilterSeq(s, Keep(_)) == SelectSeq(s, Keep)

\* Python slice s[a:b] for 0 <= a (0-based, end exclusive, clamped)
PySlice(s, a, b) ==
    LET hi == IF b > Len(s) THEN Len(s) ELSE b
    IN  IF a >= hi THEN <<>> ELSE SubSeq(s, a + 1, hi)

SeqMap(s, F(_)) == Tuple([i \in 1..Len(s) |-> F(s[i])])

EmptyMap == [x \in {} |-> 0]

-----------------------------------------------------------------------------
(* utils/gait_analysis.py : validate_state_data *)

InRange04(c) == c >= 0 /\ c <= 4

\* the array the function has in state_clean when it returns
\* (finite entries, rounded to the nearest integer, in order)
RoundedFinite(arr) == SeqMap(FilterSeq(arr, isfinite), np_round)

\* validate_state_data without the range check of lines 84-87
validate_state_data_NoRangeCheck(arr) ==
    IF Len(arr) = 0 THEN
        [ok |-> FALSE, why |-> "empty", invalid_count |-> 0, clean |-> <<>>]
    ELSE
        LET state_clean == RoundedFinite(arr)
        IN  IF Len(state_clean) = 0 THEN
                [ok |-> FALSE, why |-> "no_valid", invalid_count |-> 0,
                 clean |-> <<>>]
            ELSE IF Cardinality(Range(state_clean)) < 2 THEN
                [ok |-> FALSE, why |-> "no_change", invalid_count |-> 0,
                 clean |-> state_clean]
            ELSE
                [ok |-> TRUE, why |-> "valid", invalid_count |-> 0,
                 clean |-> state_clean]

\* validate_state_data that tests the range 0..4 on the values before they
\* are rounded (lines 84-87 ahead of line 81)
validate_state_data_RangeBeforeRound(arr) ==
    IF Len(arr) = 0 THEN
        [ok |-> FALSE, why |-> "empty", invalid_count |-> 0, clean |-> <<>>]
    ELSE
        LET finite == FilterSeq(arr, isfinite)
            state_clean == RoundedFinite(arr)
            Outside(x) == FLess(x, FromInt(0)) \/ FLess(FromInt(4), x)
        IN  IF Len(state_clean) = 0 THEN
                [ok |-> FALSE, why |-> "no_valid", invalid_count |-> 0,
                 clean |-> <<>>]
            ELSE IF \E i \in DOMAIN finite : Outside(finite[i]) THEN
                [ok |-> FALSE, why |-> "out_of_range",
                 invalid_count |->
                     Cardinality({i \in DOMAIN finite : Outside(finite[i])}),
                 clean |-> state_clean]
            ELSE IF Cardinality(Range(state_clean)) < 2 THEN
                [ok |-> FALSE, why |-> "no_change", invalid_count |-> 0,
                 clean |-> state_clean]
            ELSE
                [ok |-> TRUE, why |-> "valid", invalid_count |-> 0,
                 clean |-> state_clean]

validate_state_data(arr) ==
    IF Len(arr) = 0 THEN
        [ok |-> FALSE, why |-> "empty", invalid_count |-> 0, clean |-> <<>>]
    ELSE
        LET state_clean == RoundedFinite(arr)
        IN  IF Len(state_clean) = 0 THEN
                [ok |-> FALSE, why |-> "no_valid", invalid_count |-> 0,
                 clean |-> <<>>]
            ELSE IF \E i \in DOMAIN state_clean : ~InRange04(state_clean[i]) THEN
                [ok |-> FALSE, why |-> "out_of_range",
                 invalid_count |->
                     Cardinality({i \in DOMAIN state_clean :
                                     ~InRange04(state_clean[i])}),
                 clean |-> state_clean]
            ELSE IF Cardinality(Range(state_clean)) < 2 THEN
                [ok |-> FALSE, why |-> "no_change", invalid_count |-> 0,
                 clean |-> state_clean]
            ELSE
                [ok |-> TRUE, why |-> "valid", invalid_count |-> 0,
                 clean |-> state_clean]

-----------------------------------------------------------------------------
(* utils/gait_analysis.py : find_gait_cycles *)

\* the for loop of find_gait_cycles from index i (0-based) on, with
\* last_cycle_idx = last and the boundaries accepted so far in acc
\* GaitScan that never advances last_cycle_idx (line 183 missing)
RECURSIVE GaitScan_StaleBoundary(_, _, _, _, _, _)
GaitScan_StaleBoundary(clean, i, last, acc, lo, hi) ==
    IF i >= Len(clean) THEN acc
    ELSE
        LET cycle_length == i - last
        IN  IF clean[i] = 4 /\ clean[i + 1] = 0
               /\ lo <= cycle_length /\ cycle_length <= hi
            THEN GaitScan_StaleBoundary(clean, i + 1, last, Append(acc, i),
                                        lo, hi)
            ELSE GaitScan_StaleBoundary(clean, i + 1, last, acc, lo, hi)

\* GaitScan that measures the next candidate from every candidate, accepted
\* or not (last_cycle_idx = i outside the test of line 181)
RECURSIVE GaitScan_AdvanceOnReject(_, _, _, _, _, _)
GaitScan_AdvanceOnReject(clean, i, last, acc, lo, hi) ==
    IF i >= Len(clean) THEN acc
    ELSE
        LET cycle_length == i - last
        IN  IF clean[i] = 4 /\ clean[i + 1] = 0
            THEN IF lo <= cycle_length /\ cycle_length <= hi
                 THEN GaitScan_AdvanceOnReject(clean, i + 1, i, Append(acc, i),
                                               lo, hi)
                 ELSE GaitScan_AdvanceOnReject(clean, i + 1, i, acc, lo, hi)
            ELSE GaitScan_AdvanceOnReject(clean, i + 1, last, acc, lo, hi)

RECURSIVE GaitScan(_, _, _, _, _, _)
GaitScan(clean, i, last, acc, lo, hi) ==
    IF i >= Len(clean) THEN acc
    ELSE
        LET prev_state == clean[i]            \* clean_state[i-1]
            current_state == clean[i + 1]     \* clean_state[i]
            cycle_length == i - last
        IN  IF prev_state = 4 /\ current_state = 0
               /\ lo <= cycle_length /\ cycle_length <= hi
            THEN GaitScan(clean, i + 1, i, Append(acc, i), lo, hi)
            ELSE GaitScan(clean, i + 1, last, acc, lo, hi)

\* find_gait_cycles without the final check of lines 193-194
find_gait_cycles_NoMinimum(arr, lo, hi) ==
    LET v == validate_state_data(arr)
    IN  IF ~v.ok THEN <<>> ELSE GaitScan(v.clean, 1, 0, <<>>, lo, hi)

find_gait_cycles(arr, lo, hi) ==
    LET v == validate_state_data(arr)
    IN  IF ~v.ok THEN <<>>
        ELSE LET found == GaitScan(v.clean, 1, 0, <<>>, lo, hi)
             IN  IF Len(found) < 2 THEN <<>> ELSE found

\* the list cycles of find_gait_cycles when the loop of lines 172-190 has
\* ended, before the test of line 193; empty if validation failed
ScannedCycles(arr, lo, hi) ==
    LET v == validate_state_data(arr)
    IN  IF ~v.ok THEN <<>> ELSE GaitScan(v.clean, 1, 0, <<>>, lo, hi)


-----------------------------------------------------------------------------
(* numpy functions the program calls *)

\* np.linspace(0, stop, num) for an integer stop: num evenly spaced points,
\* both ends included
np_linspace(stop, num) ==
    IF num <= 0 THEN <<>>
    ELSE IF num = 1 THEN <<FromInt(0)>>
    ELSE Tuple([i \in 1..num |-> Rat((i - 1) * stop, num - 1)])

\* np.arange(n)
np_arange(n) == Tuple([i \in 1..n |-> i - 1])

\* np.interp at one point x for sample positions xp (increasing integers,
\* at least one) and values fp
np_interp_at(x, xp, fp) ==
    LET len == Len(xp)
        Xp(i) == FromInt(xp[i])
    IN  IF FLess(x, Xp(1)) THEN fp[1]
        ELSE IF FLess(Xp(len), x) THEN fp[len]
        ELSE
            Let(CHOOSE i \in 1..len :
                    /\ FLeq(Xp(i), x)
                    /\ i < len => FLess(x, Xp(i + 1)),
                LAMBDA j :
                    IF j = len THEN fp[j]
                    ELSE IF Xp(j) = x THEN fp[j]
                    ELSE
                        Let(FDivFin(FSub(fp[j + 1], fp[j]),
                                    FromInt(xp[j + 1] - xp[j])),
                            LAMBDA slope :
                                Let(<<FAdd(FMul(slope, FSub(x, Xp(j))), fp[j]),
                                      FAdd(FMul(slope, FSub(x, Xp(j + 1))),
                                           fp[j + 1])>>,
                                    LAMBDA sides :
                                        \* sides = <<left, right>>
                                        IF ~isnan(sides[1]) THEN sides[1]
                                        ELSE IF ~isnan(sides[2]) THEN sides[2]
                                        ELSE IF FEq(fp[j], fp[j + 1]) THEN fp[j]
                                        ELSE sides[2])))

\* np.interp(xs, xp, fp); an empty xp raises ValueError, which the callers
\* test for before they use this operator
np_interp(xs0, xp0, fp0) ==
    Let(<<xs0, xp0, fp0>>, LAMBDA args :
        LET xs == args[1]
            xp == args[2]
            fp == args[3]
        IN  Tuple([i \in 1..Len(xs) |-> np_interp_at(xs[i], xp, fp)]))

\* np.full(n, np.nan)
np_full_nan(n) == Tuple([i \in 1..n |-> NaN])

-----------------------------------------------------------------------------
(* utils/math_utils.py *)

\* np.sort of a sequence of finite floats: the element at position i goes
\* to place 1 + the number of elements that sort before it (stable)
np_sort(s) ==
    LET n == Len(s)
        Before(j, i) == FLess(s[j], s[i]) \/ (j < i /\ ~FLess(s[i], s[j]))
        place == Tuple([i \in 1..n |->
                     1 + Cardinality({j \in 1..n : Before(j, i)})])
        from == Tuple([k \in 1..n |-> CHOOSE i \in 1..n : place[i] = k])
    IN  Tuple([k \in 1..n |-> s[from[k]]])

\* np.percentile(a, q) with the default linear interpolation, for a
\* non-empty sequence of finite floats, already sorted, and an integer q
\* in 0..100
PercentileOfSorted(sorted, q) ==
    LET virtual == (Len(sorted) - 1) * q          \* 100 * virtual index
        lo == virtual \div 100
        gamma == Rat(virtual % 100, 100)
    IN  IF virtual % 100 = 0 THEN sorted[lo + 1]
        ELSE FAdd(sorted[lo + 1],
                  FMul(FSub(sorted[lo + 2], sorted[lo + 1]), gamma))

np_percentile(a, q) == PercentileOfSorted(np_sort(a), q)

\* validate_data that starts the outlier step at 4 finite values (line 39
\* with >= 4 for > 4)
validate_data_FourSuffice(arr, remove_outliers) ==
    Let(FilterSeq(arr, isfinite), LAMBDA arr_clean :
        IF Len(arr) = 0 \/ Len(arr_clean) = 0 THEN <<>>
        ELSE IF remove_outliers /\ Len(arr_clean) >= 4 THEN
            Let(np_sort(arr_clean), LAMBDA sorted :
                Let(<<PercentileOfSorted(sorted, 25),
                      PercentileOfSorted(sorted, 75)>>,
                    LAMBDA q :
                        Let(FMul(Rat(3, 2), FSub(q[2], q[1])),
                            LAMBDA margin :
                                LET lower_bound == FSub(q[1], margin)
                                    upper_bound == FAdd(q[2], margin)
                                    Inside(x) == /\ FLeq(lower_bound, x)
                                                 /\ FLeq(x, upper_bound)
                                IN  FilterSeq(arr_clean, Inside))))
        ELSE arr_clean)

\* validate_data(arr, remove_outliers) with the default outlier_method
\* 'iqr' and outlier_factor 1.5 (no caller passes other values)
validate_data(arr, remove_outliers) ==
    Let(FilterSeq(arr, isfinite), LAMBDA arr_clean :
        IF Len(arr) = 0 \/ Len(arr_clean) = 0 THEN <<>>
        ELSE IF remove_outliers /\ Len(arr_clean) > 4 THEN
            Let(np_sort(arr_clean), LAMBDA sorted :
                Let(<<PercentileOfSorted(sorted, 25),
                      PercentileOfSorted(sorted, 75)>>,
                    LAMBDA q :
                        \* q = <<q1, q3>>
                        Let(FMul(Rat(3, 2), FSub(q[2], q[1])),
                            LAMBDA margin :
                                \* margin = outlier_factor * iqr
                                LET lower_bound == FSub(q[1], margin)
                                    upper_bound == FAdd(q[2], margin)
                                    Inside(x) == /\ FLeq(lower_bound, x)
                                                 /\ FLeq(x, upper_bound)
                                IN  FilterSeq(arr_clean, Inside))))
        ELSE arr_clean)

Lcm(a, b) == (a \div Gcd(a, b)) * b

\* a common denominator of the finite floats s[lo..hi]
RECURSIVE CommonDen(_, _, _)
CommonDen(s, lo, hi) ==
    IF lo > hi THEN 1
    ELSE IF lo = hi THEN s[lo].d
    ELSE LET mid == (lo + hi) \div 2
             left == CommonDen(s, lo, mid)
             right == CommonDen(s, mid + 1, hi)
         IN  Lcm(left, right)

\* the sum of the integers s[lo..hi]
RECURSIVE IntSum(_, _, _)
IntSum(s, lo, hi) ==
    IF lo > hi THEN 0
    ELSE IF lo = hi THEN s[lo]
    ELSE LET mid == (lo + hi) \div 2
         IN  IntSum(s, lo, mid) + IntSum(s, mid + 1, hi)

\* the numerators of the elements of s over the common denominator den
Scaled(s, den) == Tuple([i \in 1..Len(s) |-> s[i].n * (den \div s[i].d)])

\* np.mean of a non-empty sequence of finite floats
np_mean(s) ==
    Let(CommonDen(s, 1, Len(s)), LAMBDA den :
        Let(Scaled(s, den), LAMBDA y :
            Rat(IntSum(y, 1, Len(y)), den * Len(s))))

\* np.var(s, ddof) of a sequence of finite floats with Len(s) > ddof:
\* sum((x - mean)^2) / (n - ddof) = (n*sum(y^2) - sum(y)^2) / (D^2 n (n-ddof))
\* for the numerators y over the common denominator D
np_var(s, ddof) ==
    Let(CommonDen(s, 1, Len(s)), LAMBDA den :
        Let(Scaled(s, den), LAMBDA y :
            Let(Tuple([i \in 1..Len(y) |-> y[i] * y[i]]), LAMBDA sq :
                Let(IntSum(y, 1, Len(y)), LAMBDA total :
                    Rat(Len(s) * IntSum(sq, 1, Len(sq)) - total * total,
                        den * den * Len(s) * (Len(s) - ddof))))))

\* np.median of a non-empty sequence of finite floats
np_median(s) ==
    Let(np_sort(s), LAMBDA sorted :
        LET n == Len(sorted)
        IN  IF n % 2 = 1 THEN sorted[(n + 1) \div 2]
            ELSE FDivFin(FAdd(sorted[n \div 2], sorted[n \div 2 + 1]),
                         FromInt(2)))

safe_mean(arr, remove_outliers) ==
    Let(validate_data(arr, remove_outliers), LAMBDA clean_arr :
        IF Len(clean_arr) > 0 THEN np_mean(clean_arr) ELSE NaN)

\* safe_std that asks for more than ddof values instead of more than 1
safe_std_MinimumByDdof(arr, ddof, remove_outliers) ==
    Let(validate_data(arr, remove_outliers), LAMBDA clean_arr :
        IF Len(clean_arr) > ddof THEN np_var(clean_arr, ddof) ELSE NaN)

\* The standard deviation is the square root of a rational and in general
\* irrational: the model keeps its square, np.var.  Square root is strictly
\* increasing on the non-negative reals, so two std values are equal, or
\* ordered, exactly as their squares are.
safe_std(arr, ddof, remove_outliers) ==
    Let(validate_data(arr, remove_outliers), LAMBDA clean_arr :
        IF Len(clean_arr) > 1 THEN np_var(clean_arr, ddof) ELSE NaN)

\* np.max / np.min of a non-empty sequence of finite floats
np_max(s) ==
    Let(Range(s), LAMBDA values :
        CHOOSE x \in values : \A y \in values : FLeq(y, x))

np_min(s) ==
    Let(Range(s), LAMBDA values :
        CHOOSE x \in values : \A y \in values : FLeq(x, y))

safe_max(arr, remove_outliers) ==
    Let(validate_data(arr, remove_outliers), LAMBDA clean_arr :
        IF Len(clean_arr) > 0 THEN np_max(clean_arr) ELSE NaN)

safe_min(arr, remove_outliers) ==
    Let(validate_data(arr, remove_outliers), LAMBDA clean_arr :
        IF Len(clean_arr) > 0 THEN np_min(clean_arr) ELSE NaN)

safe_median(arr, remove_outliers) ==
    Let(validate_data(arr, remove_outliers), LAMBDA clean_arr :
        IF Len(clean_arr) > 0 THEN np_median(clean_arr) ELSE NaN)

\* safe_percentile(arr, [25, 75])
safe_percentile(arr, remove_outliers) ==
    Let(validate_data(arr, remove_outliers), LAMBDA clean_arr :
        IF Len(clean_arr) > 0
        THEN Let(np_sort(clean_arr), LAMBDA sorted :
                 <<PercentileOfSorted(sorted, 25),
                   PercentileOfSorted(sorted, 75)>>)
        ELSE <<NaN, NaN>>)

get_data_quality_info(arr) ==
    LET total_count == Len(arr)
        nan_count == Cardinality({i \in DOMAIN arr : isnan(arr[i])})
        inf_count == Cardinality({i \in DOMAIN arr : isinf(arr[i])})
        valid_count == total_count - nan_count - inf_count
    IN  [total_count |-> total_count,
         valid_count |-> valid_count,
         nan_count |-> nan_count,
         inf_count |-> inf_count,
         finite_percentage |->
             IF total_count > 0 THEN Rat(valid_count * 100, total_count)
             ELSE FromInt(0)]

\* calculate_comprehensive_stats that counts the values left after the
\* outlier step instead of the finite values
calculate_comprehensive_stats_CountCleaned(arr, ddof, remove_outliers) ==
    Let(get_data_quality_info(arr), LAMBDA quality_info :
        LET base_stats ==
                IF quality_info.valid_count = 0 THEN
                    [mean |-> NaN, std |-> NaN, min |-> NaN, max |-> NaN,
                     median |-> NaN, count |-> 0]
                ELSE
                    [mean |-> safe_mean(arr, remove_outliers),
                     std |-> safe_std(arr, ddof, remove_outliers),
                     min |-> safe_min(arr, remove_outliers),
                     max |-> safe_max(arr, remove_outliers),
                     median |-> safe_median(arr, remove_outliers),
                     count |-> Len(validate_data(arr, remove_outliers))]
        IN  Let(base_stats @@ quality_info, LAMBDA result :
                IF quality_info.valid_count > 0 THEN
                    Let(safe_percentile(arr, remove_outliers),
                        LAMBDA percentiles :
                            result @@
                            [q25 |-> percentiles[1],
                             q75 |-> percentiles[2],
                             iqr |-> IF \/ isnan(percentiles[1])
                                        \/ isnan(percentiles[2])
                                     THEN NaN
                                     ELSE FSub(percentiles[2],
                                               percentiles[1])])
                ELSE result))

\* calculate_comprehensive_stats that always adds the percentile keys
calculate_comprehensive_stats_AlwaysPercentiles(arr, ddof, remove_outliers) ==
    Let(get_data_quality_info(arr), LAMBDA quality_info :
        [mean |-> safe_mean(arr, remove_outliers),
         std |-> safe_std(arr, ddof, remove_outliers),
         min |-> safe_min(arr, remove_outliers),
         max |-> safe_max(arr, remove_outliers),
         median |-> safe_median(arr, remove_outliers),
         count |-> quality_info.valid_count,
         q25 |-> IF quality_info.valid_count > 0
                 THEN safe_percentile(arr, remove_outliers)[1] ELSE NaN,
         q75 |-> IF quality_info.valid_count > 0
                 THEN safe_percentile(arr, remove_outliers)[2] ELSE NaN,
         iqr |-> IF quality_info.valid_count > 0
                 THEN FSub(safe_percentile(arr, remove_outliers)[2],
                           safe_percentile(arr, remove_outliers)[1])
                 ELSE NaN]
        @@ quality_info)

\* calculate_comprehensive_stats(arr, ddof, remove_outliers,
\* include_percentiles=True); a dict is a function on its keys
calculate_comprehensive_stats(arr, ddof, remove_outliers) ==
    Let(get_data_quality_info(arr), LAMBDA quality_info :
        LET base_stats ==
                IF quality_info.valid_count = 0 THEN
                    [mean |-> NaN, std |-> NaN, min |-> NaN, max |-> NaN,
                     median |-> NaN, count |-> 0]
                ELSE
                    [mean |-> safe_mean(arr, remove_outliers),
                     std |-> safe_std(arr, ddof, remove_outliers),
                     min |-> safe_min(arr, remove_outliers),
                     max |-> safe_max(arr, remove_outliers),
                     median |-> safe_median(arr, remove_outliers),
                     count |-> quality_info.valid_count]
        IN  Let(base_stats @@ quality_info, LAMBDA result :
                IF quality_info.valid_count > 0 THEN
                    Let(safe_percentile(arr, remove_outliers),
                        LAMBDA percentiles :
                            result @@
                            [q25 |-> percentiles[1],
                             q75 |-> percentiles[2],
                             iqr |-> IF \/ isnan(percentiles[1])
                                        \/ isnan(percentiles[2])
                                     THEN NaN
                                     ELSE FSub(percentiles[2],
                                               percentiles[1])])
                ELSE result))

-----------------------------------------------------------------------------
(* utils/gait_analysis.py : resample_cycle *)

NotNaN(x) == ~isnan(x)

\* original_indices[valid_mask] : the 0-based positions of the entries
\* of seg that are not NaN
ValidPositions(seg) ==
    LET idx == np_arange(Len(seg))
        Valid(i) == NotNaN(seg[i + 1])
    IN  FilterSeq(idx, Valid)

\* resample_cycle that leaves out the check of lines 227-229
resample_cycle_NoFiniteCheck(data, first, last, num) ==
    IF first < 0 \/ last >= Len(data) \/ first >= last THEN np_full_nan(num)
    ELSE
        LET segment == PySlice(data, first, last + 1)
            new_indices == np_linspace(Len(segment) - 1, num)
        IN  IF \E i \in DOMAIN segment : isnan(segment[i]) THEN
                IF Len(FilterSeq(segment, NotNaN)) < 2 THEN np_full_nan(num)
                ELSE np_interp(new_indices, ValidPositions(segment),
                               FilterSeq(segment, NotNaN))
            ELSE np_interp(new_indices, np_arange(Len(segment)), segment)

\* resample_cycle that slices data[start:end] instead of data[start:end+1]
resample_cycle_EndExclusive(data, first, last, num) ==
    IF first < 0 \/ last >= Len(data) \/ first >= last THEN np_full_nan(num)
    ELSE
        LET segment == PySlice(data, first, last)
            clean_segment == validate_data(segment, FALSE)
            new_indices == np_linspace(Len(segment) - 1, num)
        IN  IF Len(clean_segment) < 2 THEN np_full_nan(num)
            ELSE IF \E i \in DOMAIN segment : isnan(segment[i]) THEN
                np_interp(new_indices, ValidPositions(segment),
                          FilterSeq(segment, NotNaN))
            ELSE np_interp(new_indices, np_arange(Len(segment)), segment)

resample_cycle(data, first, last, num) ==
    IF first < 0 \/ last >= Len(data) \/ first >= last THEN np_full_nan(num)
    ELSE
        LET segment == PySlice(data, first, last + 1)
            clean_segment == validate_data(segment, FALSE)
            new_indices == np_linspace(Len(segment) - 1, num)
        IN  IF Len(clean_segment) < 2 THEN np_full_nan(num)
            ELSE IF \E i \in DOMAIN segment : isnan(segment[i]) THEN
                IF Len(FilterSeq(segment, NotNaN)) < 2 THEN np_full_nan(num)
                ELSE np_interp(new_indices, ValidPositions(segment),
                               FilterSeq(segment, NotNaN))
            ELSE np_interp(new_indices, np_arange(Len(segment)), segment)

-----------------------------------------------------------------------------
(* utils/gait_analysis.py : get_state_name, find_state_transitions *)

PhaseNames == <<"EarlyStance", "LateStance", "Liftoff", "Swing", "Landing">>

get_state_name(state_value) ==
    IF state_value \in 0..4 THEN PhaseNames[state_value + 1]
    ELSE "Unknown_" \o ToString(state_value)

\* transitions[state_name].append(rng), creating the list when missing
AppendRange(transitions, state_name, rng) ==
    IF state_name \in DOMAIN transitions
    THEN [transitions EXCEPT ![state_name] = Append(@, rng)]
    ELSE transitions @@ (state_name :> <<rng>>)

\* TransitionScan without the last run (lines 137-141 missing)
RECURSIVE TransitionScan_NoLastRun(_, _, _)
TransitionScan_NoLastRun(clean_state, run_start, transitions) ==
    LET current_state == clean_state[run_start + 1]
        changes == {i \in (run_start + 1)..(Len(clean_state) - 1) :
                       clean_state[i + 1] # current_state}
    IN  IF changes = {} THEN transitions
        ELSE
            LET i == CHOOSE c \in changes : \A m \in changes : c <= m
            IN  TransitionScan_NoLastRun(clean_state, i,
                    AppendRange(transitions, get_state_name(current_state),
                                <<run_start, i - 1>>))

\* the for loop of find_state_transitions, taken from one change of state
\* to the next: the run of current_state that starts at index run_start
\* (the code's start_idx) ends before the first later index i with
\* clean_state[i] #
\* current_state, where the loop appends (run_start, i-1) and starts the next
\* run; after the last run it appends (run_start, len(clean_state)-1)
RECURSIVE TransitionScan(_, _, _)
TransitionScan(clean_state, run_start, transitions) ==
    LET current_state == clean_state[run_start + 1]
        changes == {i \in (run_start + 1)..(Len(clean_state) - 1) :
                       clean_state[i + 1] # current_state}
    IN  IF changes = {} THEN
            AppendRange(transitions, get_state_name(current_state),
                        <<run_start, Len(clean_state) - 1>>)
        ELSE
            LET i == CHOOSE c \in changes : \A m \in changes : c <= m
            IN  TransitionScan(clean_state, i,
                    AppendRange(transitions, get_state_name(current_state),
                                <<run_start, i - 1>>))

\* find_state_transitions without the validation of lines 116-119
find_state_transitions_NoValidation(normalized_state_cycle) ==
    IF Len(normalized_state_cycle) = 0 THEN EmptyMap
    ELSE TransitionScan(normalized_state_cycle, 0, EmptyMap)

\* the argument is an integer array (the rounded, clipped normalised state)
find_state_transitions(normalized_state_cycle) ==
    IF Len(normalized_state_cycle) = 0 THEN EmptyMap
    ELSE
        Let(validate_state_data(SeqMap(normalized_state_cycle, FromInt)),
            LAMBDA v :
                IF ~v.ok THEN EmptyMap
                ELSE TransitionScan(v.clean, 0, EmptyMap))

-----------------------------------------------------------------------------
(* utils/gait_analysis.py : validate_gait_cycles *)

np_diff(s) == Tuple([i \in 1..(Len(s) - 1) |-> s[i + 1] - s[i]])

\* std > bound for std = sqrt(variance) >= 0
StdExceeds(variance, bound) ==
    IF Sgn(bound) < 0 THEN TRUE ELSE FLess(FMul(bound, bound), variance)

\* validate_gait_cycles without the regularity test of the intervals
validate_gait_cycles_NoRegularity(cyc, data_length, min_cycles) ==
    IF Len(cyc) < min_cycles THEN FALSE
    ELSE IF \E i \in DOMAIN cyc : cyc[i] < 0 \/ cyc[i] >= data_length THEN FALSE
    ELSE TRUE

validate_gait_cycles(cyc, data_length, min_cycles) ==
    IF Len(cyc) < min_cycles THEN FALSE
    ELSE IF \E i \in DOMAIN cyc : cyc[i] < 0 \/ cyc[i] >= data_length THEN FALSE
    ELSE IF Len(cyc) < 2 THEN
        \* np.mean and np.std of an empty array are NaN; NaN > NaN is false
        TRUE
    ELSE
        Let(SeqMap(np_diff(cyc), FromInt), LAMBDA intervals :
            LET mean_interval == np_mean(intervals)
                var_interval == np_var(intervals, 0)
            IN  ~StdExceeds(var_interval, FMul(mean_interval, Rat(1, 2))))

-----------------------------------------------------------------------------
(* src/analysis_engine.py : calculate_dynamic_gait_phase_statistics *)

\* dict.get(key, default)
DictGet(dict, key, default) == IF key \in DOMAIN dict THEN dict[key] ELSE default

\* One iteration of the loop of lines 51-81 for the boundary pair
\* (cycle_start, cycle_end): "skip" when nothing is appended, "raise" when
\* np.interp is given an empty state slice, else the normalised pair.
NormalizeCycle(data, clean_state, cycle_start, cycle_end) ==
    IF cycle_end >= Len(data) \/ cycle_start < 0 THEN [kind |-> "skip"]
    ELSE
        LET cycle_data == PySlice(data, cycle_start, cycle_end)
            cycle_state == PySlice(clean_state, cycle_start, cycle_end)
        IN  IF Len(cycle_data) < 2 THEN [kind |-> "skip"]
            ELSE IF Len(cycle_state) = 0 THEN [kind |-> "raise"]
            ELSE
                [kind |-> "cycle",
                 data |-> np_interp(
                              np_linspace(Len(cycle_data) - 1, RESAMPLE_POINTS),
                              np_arange(Len(cycle_data)), cycle_data),
                 state |->
                     Let(np_interp(
                             np_linspace(Len(cycle_state) - 1, RESAMPLE_POINTS),
                             np_arange(Len(cycle_state)),
                             SeqMap(cycle_state, FromInt)),
                         LAMBDA interpolated :
                             Tuple([i \in 1..Len(interpolated) |->
                                 np_clip(np_round(interpolated[i]), 0, 4)]))]

\* CollectRanges taking data_cycle[start_idx:end_idx], the last sample of
\* every range left out
RECURSIVE CollectRanges_EndExclusive(_, _, _)
CollectRanges_EndExclusive(data_cycle, ranges, i) ==
    IF i > Len(ranges) THEN <<>>
    ELSE
        LET lo == ranges[i][1]
            hi == ranges[i][2]
            valid_values ==
                IF lo <= hi /\ hi < Len(data_cycle)
                THEN validate_data(PySlice(data_cycle, lo, hi), FALSE)
                ELSE <<>>
        IN  valid_values \o CollectRanges_EndExclusive(data_cycle, ranges, i + 1)

\* the values one normalised cycle adds to the bucket of state_name
\* (lines 94-105), given the transitions found in its state
RECURSIVE CollectRanges(_, _, _)
CollectRanges(data_cycle, ranges, i) ==
    IF i > Len(ranges) THEN <<>>
    ELSE
        LET lo == ranges[i][1]
            hi == ranges[i][2]
            valid_values ==
                IF lo <= hi /\ hi < Len(data_cycle)
                THEN validate_data(PySlice(data_cycle, lo, hi + 1), FALSE)
                ELSE <<>>
        IN  valid_values \o CollectRanges(data_cycle, ranges, i + 1)

\* phase_data after the loop of lines 89-105 over the normalised cycles
\* from position i on
RECURSIVE CollectPhaseData(_, _, _)
CollectPhaseData(normalized, i, phase_data) ==
    IF i > Len(normalized) THEN phase_data
    ELSE
        Let(find_state_transitions(normalized[i].state),
            LAMBDA state_transitions :
                LET names == DOMAIN state_transitions \cup DOMAIN phase_data
                    Before(name) == DictGet(phase_data, name, <<>>)
                    Added(name) ==
                        IF name \in DOMAIN state_transitions
                        THEN CollectRanges(normalized[i].data,
                                           state_transitions[name], 1)
                        ELSE <<>>
                IN  Let([name \in names |-> Before(name) \o Added(name)],
                        LAMBDA collected :
                            CollectPhaseData(normalized, i + 1, collected)))

\* the record of lines 132-147 for a phase without data
EmptyPhaseRecord(state_name, cycle_count) ==
    [mean |-> NaN, std |-> NaN, max |-> NaN, min |-> NaN, median |-> NaN,
     count |-> 0, cycle_count |-> cycle_count, phase_name |-> state_name,
     data_coverage |-> FromInt(0), total_count |-> 0, valid_count |-> 0,
     nan_count |-> 0, inf_count |-> 0, finite_percentage |-> FromInt(0)]

\* PhaseStatistics without the else branch of lines 130-147: a phase
\* without data gets no record
PhaseStatistics_DropEmpty(phase_data, cycle_count, config) ==
    LET ddof == DictGet(config, "ddof", 0)
        remove_outliers == DictGet(config, "remove_outliers", FALSE)
        with_data == {name \in DOMAIN phase_data : Len(phase_data[name]) > 0}
    IN  [state_name \in with_data |->
            [cycle_count |-> cycle_count,
             phase_name |-> state_name,
             data_coverage |->
                 Rat(Len(phase_data[state_name]) * 100,
                     cycle_count * RESAMPLE_POINTS)]
            @@ calculate_comprehensive_stats(phase_data[state_name], ddof,
                                             remove_outliers)]

\* PhaseStatistics with data_coverage taken per cycle, not per grid point
PhaseStatistics_CoveragePerCycle(phase_data, cycle_count, config) ==
    LET ddof == DictGet(config, "ddof", 0)
        remove_outliers == DictGet(config, "remove_outliers", FALSE)
    IN  [state_name \in DOMAIN phase_data |->
            LET data_points == phase_data[state_name]
            IN  IF Len(data_points) > 0 THEN
                    [cycle_count |-> cycle_count,
                     phase_name |-> state_name,
                     data_coverage |->
                         Rat(Len(data_points) * 100,
                             cycle_count)]
                    @@ calculate_comprehensive_stats(data_points, ddof,
                                                     remove_outliers)
                ELSE EmptyPhaseRecord(state_name, cycle_count)]

\* lines 107-149
PhaseStatistics(phase_data, cycle_count, config) ==
    LET ddof == DictGet(config, "ddof", 0)
        remove_outliers == DictGet(config, "remove_outliers", FALSE)
    IN  [state_name \in DOMAIN phase_data |->
            LET data_points == phase_data[state_name]
            IN  IF Len(data_points) > 0 THEN
                    [cycle_count |-> cycle_count,
                     phase_name |-> state_name,
                     data_coverage |->
                         Rat(Len(data_points) * 100,
                             cycle_count * RESAMPLE_POINTS)]
                    @@ calculate_comprehensive_stats(data_points, ddof,
                                                     remove_outliers)
                ELSE EmptyPhaseRecord(state_name, cycle_count)]

\* the normalised cycles of lines 48-81, in order
NormalizedCycles(data, clean_state, cyc) ==
    Let(Tuple([i \in 1..(Len(cyc) - 1) |->
            NormalizeCycle(data, clean_state, cyc[i], cyc[i + 1])]),
        LAMBDA all :
            LET IsCycle(r) == r.kind = "cycle"
            IN  IF \E i \in DOMAIN all : all[i].kind = "raise"
                THEN [raised |-> TRUE, list |-> <<>>]
                ELSE [raised |-> FALSE, list |-> FilterSeq(all, IsCycle)])

\* what the loop of lines 51-81 does with each boundary pair, in order: a
\* normalised cycle, a skip, or the exception that ends the loop; no entry when
\* the function returns before the loop
LoopOutcomes(data, states, cyc, config) ==
    IF Len(cyc) < DictGet(config, "min_cycles_required", DefaultMinCycles)
    THEN <<>>
    ELSE IF ~validate_gait_cycles(cyc, Len(data), DefaultMinCycles)
    THEN <<>>
    ELSE
        LET v == validate_state_data(states)
            all == Tuple([i \in 1..(Len(cyc) - 1) |->
                       NormalizeCycle(data, v.clean, cyc[i], cyc[i + 1])])
            raises == {i \in DOMAIN all : all[i].kind = "raise"}
        IN  IF ~v.ok THEN <<>>
            ELSE IF raises = {} THEN all
            ELSE SubSeq(all, 1, CHOOSE i \in raises : \A j \in raises : i <= j)

\* config is the STATISTICS_CONFIG dict at the time of the call
StatisticsWith(data, states, cyc, config) ==
    IF Len(cyc) < DictGet(config, "min_cycles_required", DefaultMinCycles)
    THEN EmptyMap
    ELSE IF ~validate_gait_cycles(cyc, Len(data), DefaultMinCycles)
    THEN EmptyMap
    ELSE
        Let(validate_state_data(states), LAMBDA v :
            IF ~v.ok THEN EmptyMap
            ELSE
                Let(NormalizedCycles(data, v.clean, cyc), LAMBDA normalized :
                    IF normalized.raised \/ Len(normalized.list) = 0
                    THEN EmptyMap
                    ELSE
                        Let(CollectPhaseData(normalized.list, 1, EmptyMap),
                            LAMBDA phase_data :
                                PhaseStatistics(phase_data,
                                                Len(normalized.list), config))))

\* calculate_dynamic_gait_phase_statistics taking the minimum number of
\* boundaries from VALIDATION_CONFIG, the dict that has the key
calculate_dynamic_gait_phase_statistics_SharedMinimum(data, states, cyc) ==
    StatisticsWith(data, states, cyc,
                   [min_cycles_required |->
                        VALIDATION_CONFIG.min_cycles_required]
                   @@ STATISTICS_CONFIG)

calculate_dynamic_gait_phase_statistics(data, states, cyc) ==
    StatisticsWith(data, states, cyc, STATISTICS_CONFIG)

-----------------------------------------------------------------------------
(* src/analysis_engine.py : calculate_overall_statistics,                  *)
(* evaluate_data_quality, assess_analysis_quality,                         *)
(* analyze_variable_comprehensive                                          *)

\* lines 169-186; the except branch of lines 190-201 is not reachable from
\* a sequence of floats, calculate_comprehensive_stats raises on none
calculate_overall_statistics(data, variable_name) ==
    LET ddof == DictGet(STATISTICS_CONFIG, "ddof", 0)
        remove_outliers == DictGet(STATISTICS_CONFIG, "remove_outliers", FALSE)
    IN  [variable_name |-> variable_name,
         analysis_type |-> "overall",
         outliers_removed |-> remove_outliers,
         ddof_used |-> ddof]
        @@ calculate_comprehensive_stats(data, ddof, remove_outliers)

\* x / y as Python computes it in the conditional expressions of lines
\* 286-287, which test y != 0 first
RatioOrNaN(x, y) == IF Sgn(y) = 0 THEN NaN ELSE FDivFin(x, y)

\* QualityGrade with strict comparisons (> for >=)
QualityGrade_Strict(completeness) ==
    IF FLess(FromInt(95), completeness) THEN "Excellent"
    ELSE IF FLess(FromInt(80), completeness) THEN "Good"
    ELSE IF FLess(FromInt(60), completeness) THEN "Fair"
    ELSE "Poor"

\* the grade of lines 291-298 for a completeness percentage
QualityGrade(completeness) ==
    IF FLeq(FromInt(95), completeness) THEN "Excellent"
    ELSE IF FLeq(FromInt(80), completeness) THEN "Good"
    ELSE IF FLeq(FromInt(60), completeness) THEN "Fair"
    ELSE "Poor"

\* lines 277-300.  variability is std / mean: the model, which keeps the
\* square of std, keeps variability as sign(mean) * var / mean^2.  The except
\* branch of lines 302-309 is not reachable from a sequence of floats.
evaluate_data_quality(data) ==
    Let(validate_data(data, FALSE), LAMBDA data_clean :
        LET total_count == Len(data)
            valid_count == Len(data_clean)
            completeness ==
                IF total_count > 0 THEN Rat(valid_count * 100, total_count)
                ELSE FromInt(0)
        IN  Let(IF valid_count > 0 THEN np_mean(data_clean) ELSE NaN,
                LAMBDA mean :
                    [total_points |-> total_count,
                     valid_points |-> valid_count,
                     completeness |-> completeness,
                     variability |->
                         IF valid_count > 0 /\ Sgn(mean) # 0
                         THEN FMul(FromInt(Sgn(mean)),
                                   RatioOrNaN(np_var(data_clean, 0),
                                              FMul(mean, mean)))
                         ELSE NaN,
                     range_ratio |->
                         IF valid_count > 0 /\ Sgn(mean) # 0
                         THEN RatioOrNaN(FSub(np_max(data_clean),
                                              np_min(data_clean)), mean)
                         ELSE NaN,
                     grade |-> QualityGrade(completeness)]))

\* Python's min(a, b) for floats without NaN
FMin(a, b) == IF FLess(b, a) THEN b ELSE a

\* assess_analysis_quality that counts every phase, with or without data
assess_analysis_quality_CountAllPhases(analysis_result) ==
    LET data_quality == DictGet(analysis_result, "data_quality", EmptyMap)
        completeness == DictGet(data_quality, "completeness", FromInt(0))
        overall_stats == DictGet(analysis_result, "overall_statistics", EmptyMap)
        gait_stats == DictGet(analysis_result, "gait_phase_statistics", EmptyMap)
        valid_phases == Cardinality(DOMAIN gait_stats)
        score ==
            FAdd(FAdd(FMin(FromInt(40), FMul(completeness, Rat(2, 5))),
                      FromInt(IF DictGet(overall_stats, "count", 0) > 10
                              THEN 15 ELSE 0)),
                 FAdd(FromInt(IF ~isnan(DictGet(overall_stats, "mean", NaN))
                              THEN 15 ELSE 0),
                      FMin(FromInt(30), FromInt(valid_phases * 6))))
    IN  FMin(FromInt(100), score)

\* lines 319-342; the except branch of lines 344-345 is not reachable from
\* the records analyze_variable_comprehensive builds
assess_analysis_quality(analysis_result) ==
    LET data_quality == DictGet(analysis_result, "data_quality", EmptyMap)
        completeness == DictGet(data_quality, "completeness", FromInt(0))
        overall_stats == DictGet(analysis_result, "overall_statistics", EmptyMap)
        gait_stats == DictGet(analysis_result, "gait_phase_statistics", EmptyMap)
        valid_phases ==
            Cardinality({name \in DOMAIN gait_stats :
                            DictGet(gait_stats[name], "count", 0) > 0})
        score ==
            FAdd(FAdd(FMin(FromInt(40), FMul(completeness, Rat(2, 5))),
                      FromInt(IF DictGet(overall_stats, "count", 0) > 10
                              THEN 15 ELSE 0)),
                 FAdd(FromInt(IF ~isnan(DictGet(overall_stats, "mean", NaN))
                              THEN 15 ELSE 0),
                      FMin(FromInt(30), FromInt(valid_phases * 6))))
    IN  FMin(FromInt(100), score)

\* the places of analyze_variable_comprehensive and of the loop body of
\* analyze_data at which an exception can leave a statement:
\*   "phase"        out of the call of lines 240-242 (caught at line 253)
\*   "engine_start" in the body before line 230 completes (caught at 264)
\*   "engine_end"   in the body after the phase analysis (caught at 264)
\*   "prepare"      in analyze_data before the call of line 584 (caught at 595)
\*   "format"       in analyze_data after line 590 (caught at 595)
FaultSites == {"none", "phase", "engine_start", "engine_end", "prepare", "format"}

\* the except branch of lines 264-267
EngineFailed(analysis_result) ==
    [error |-> "exception"]
    @@ [analysis_result EXCEPT !.analysis_notes = Append(@, "analysis_error")]

\* step 3, lines 238-256: has_state is "state_arr is not None and cycles is
\* not None"
PhaseAnalysis(analysis_result, data, has_state, states, cyc, fault) ==
    IF ~has_state THEN analysis_result
    ELSE IF fault = "phase" THEN
        [analysis_result EXCEPT !.analysis_notes = Append(@, "phase_error")]
    ELSE
        Let(calculate_dynamic_gait_phase_statistics(data, states, cyc),
            LAMBDA stats :
                [analysis_result EXCEPT
                    !.gait_phase_statistics = stats,
                    !.analysis_notes =
                        Append(@, IF stats # EmptyMap THEN "phase_done"
                                  ELSE "phase_failed")])

\* analyze_variable_comprehensive(data_arr, state_arr, cycles, variable_name)
\* with an exception raised at the place fault names
analyze_variable_comprehensive(data, has_state, states, cyc, variable_name, fault) ==
    LET empty_result ==
            [variable_name |-> variable_name,
             overall_statistics |-> EmptyMap,
             gait_phase_statistics |-> EmptyMap,
             data_quality |-> EmptyMap,
             analysis_notes |-> <<>>]
    IN  IF fault = "engine_start" THEN EngineFailed(empty_result)
        ELSE
            Let([empty_result EXCEPT
                    !.overall_statistics =
                        calculate_overall_statistics(data, variable_name),
                    !.data_quality = evaluate_data_quality(data)],
                LAMBDA measured :
                    Let(PhaseAnalysis(measured, data, has_state, states, cyc,
                                      fault),
                        LAMBDA analysed :
                            IF fault = "engine_end" THEN EngineFailed(analysed)
                            ELSE [quality_score |->
                                      assess_analysis_quality(analysed)]
                                 @@ analysed))

-----------------------------------------------------------------------------
(* config/constants.py : the module-level configuration dicts (the keys    *)
(* the modelled code reads or update_config can set)                       *)

DefaultStatisticsConfig == [ddof |-> 0, remove_outliers |-> FALSE]

DefaultValidationConfig ==
    [min_cycle_length |-> DefaultMinCycleLength,
     max_cycle_length |-> DefaultMaxCycleLength,
     min_cycles_required |-> DefaultMinCycles]

\* config/constants.py : update_config(section, key, value) on the two
\* modelled dicts; any other section, or a key the dict does not have,
\* changes nothing modelled
update_config(section, key, value) ==
    IF section = "statistics" /\ key \in DOMAIN STATISTICS_CONFIG THEN
        /\ STATISTICS_CONFIG' = [STATISTICS_CONFIG EXCEPT ![key] = value]
        /\ UNCHANGED VALIDATION_CONFIG
    ELSE IF section = "validation" /\ key \in DOMAIN VALIDATION_CONFIG THEN
        /\ VALIDATION_CONFIG' = [VALIDATION_CONFIG EXCEPT ![key] = value]
        /\ UNCHANGED STATISTICS_CONFIG
    ELSE UNCHANGED <<STATISTICS_CONFIG, VALIDATION_CONFIG>>

-----------------------------------------------------------------------------
(* Values of the variables an operation does not use *)

NoCall == [ddof |-> -1, remove_outliers |-> FALSE]

ConfigIdle ==
    /\ STATISTICS_CONFIG = DefaultStatisticsConfig
    /\ VALIDATION_CONFIG = DefaultValidationConfig

StatsIdle ==
    /\ phase_stats = EmptyMap
    /\ prev_stats = EmptyMap
    /\ last_config = NoCall
    /\ prev_config = NoCall
    /\ n_calls = 0

ResampleIdle ==
    /\ start_idx = 0
    /\ end_idx = 0
    /\ n_points = RESAMPLE_POINTS
    /\ resampled = <<>>

DetectIdle ==
    /\ min_cycle_length = DefaultMinCycleLength
    /\ max_cycle_length = DefaultMaxCycleLength

DefaultStatArgs == [ddof |-> 0, remove_outliers |-> FALSE]

CallsIdle ==
    /\ stat_args = DefaultStatArgs
    /\ math_out = EmptyMap
    /\ validation = EmptyMap

\* no function has run
\* the window as the constructor leaves it (line 284)
AppIdle ==
    /\ analyze_button = "disabled"
    /\ workers = <<>>
    /\ reported = <<>>
    /\ n_loads = 0

LocalsIdle ==
    /\ scan_cycles = <<>>
    /\ state_cycle = <<>>
    /\ phase_ranges = EmptyMap
    /\ normalized_cycles = <<>>

\* no file is loaded and nothing is selected
BatchIdle ==
    /\ file_paths = <<>>
    /\ dataframes = <<>>
    /\ selected_vars = <<>>
    /\ file_idx = 0
    /\ var_idx = 0
    /\ analysis_results = EmptyMap
    /\ results_data = <<>>
    /\ faulted = {}

-----------------------------------------------------------------------------
(* Cycle detection as a pure function: inputs drawn in Init, one call *)

SeqsUpTo(S, n) == UNION {[1..m -> S] : m \in 0..n}

\* raw state samples: valid codes, a value that rounds into range (3.5 -> 4),
\* values out of range after rounding (5, 5.5 -> 6) and a non-finite entry
DetectVals == {FromInt(0), FromInt(2), FromInt(4), Rat(7, 2), FromInt(5), NaN}

\* longer sequences are drawn from the two heel-strike codes and NaN only
StrikeVals == {FromInt(0), FromInt(4), NaN}

\* three repeats of the five-phase pattern
ExampleStates == [i \in 1..15 |-> FromInt((i - 1) % 5)]

\* (min_cycle_length, max_cycle_length) arguments
DetectLengths ==
    {<<1, 2>>, <<1, DefaultMaxCycleLength>>, <<2, 3>>, <<3, 2>>,
     <<DefaultMinCycleLength, DefaultMaxCycleLength>>}

\* the most heel strikes of a strike train, and the longest distance
\* between two of them
MaxStrikes == 4

MaxGap == 4

\* the distances between the heel strikes of a strike train: the first is
\* measured from index 0, and two strikes are at least 2 samples apart
GapLists ==
    {gaps \in SeqsUpTo(1..MaxGap, MaxStrikes) :
        Len(gaps) > 0 /\ \A k \in 2..Len(gaps) : gaps[k] >= 2}

\* a state column of EarlyStance samples with a Landing sample before each
\* heel strike
RECURSIVE StrikeTrain(_)
StrikeTrain(gaps) ==
    IF gaps = <<>> THEN <<FromInt(0)>>
    ELSE [k \in 1..gaps[1] |-> IF k = gaps[1] THEN FromInt(4) ELSE FromInt(0)]
         \o StrikeTrain(Tail(gaps))

InitDetect ==
    /\ pc = "init"
    /\ \/ /\ state_arr \in SeqsUpTo(DetectVals, MaxStateLen)
                          \cup SeqsUpTo(StrikeVals, MaxStateLen + 3)
                          \cup {StrikeTrain(gaps) : gaps \in GapLists}
          /\ \E lens \in DetectLengths :
                /\ min_cycle_length = lens[1]
                /\ max_cycle_length = lens[2]
       \/ /\ state_arr = ExampleStates
          /\ min_cycle_length = 5
          /\ max_cycle_length = DefaultMaxCycleLength
    /\ data_arr = <<>>
    /\ cycles = <<>>
    /\ ResampleIdle
    /\ ConfigIdle
    /\ StatsIdle
    /\ CallsIdle
    /\ BatchIdle
    /\ LocalsIdle
    /\ AppIdle

FindGaitCycles ==
    /\ pc = "init"
    /\ pc' = "detected"
    /\ scan_cycles' = ScannedCycles(state_arr, min_cycle_length,
                                    max_cycle_length)
    /\ UNCHANGED <<state_cycle, phase_ranges, normalized_cycles>>
    /\ UNCHANGED appVars
    /\ cycles' = find_gait_cycles(state_arr, min_cycle_length, max_cycle_length)
    /\ UNCHANGED <<state_arr, data_arr, min_cycle_length, max_cycle_length,
                   start_idx, end_idx, n_points, resampled, STATISTICS_CONFIG,
                   VALIDATION_CONFIG, phase_stats, prev_stats, last_config,
                   prev_config, n_calls>>
    /\ UNCHANGED callVars
    /\ UNCHANGED batchVars

NextDetect == FindGaitCycles

SpecDetect == InitDetect /\ [][NextDetect]_vars

-----------------------------------------------------------------------------
(* Properties of cycle detection *)

\* a raw sample that is one of the codes 0..4 exactly
IsCode(x) == isfinite(x) /\ x.d = 1 /\ x.n \in 0..4

\* the phase code a raw sample stands for: its rounded value, -1 if not finite
CodeOf(x) == IF isfinite(x) THEN np_round(x) ELSE -1

\* heel strike at 0-based index i of a raw sequence
HeelStrikeAt(arr, i) ==
    /\ i >= 1
    /\ i < Len(arr)
    /\ CodeOf(arr[i]) = 4
    /\ CodeOf(arr[i + 1]) = 0

\* lastBoundary of the reference scan after index i has been processed
RECURSIVE RefLast(_, _, _, _)
RefLast(arr, i, lo, hi) ==
    IF i = 0 THEN 0
    ELSE LET before == RefLast(arr, i - 1, lo, hi)
         IN  IF HeelStrikeAt(arr, i) /\ lo <= i - before /\ i - before <= hi
             THEN i ELSE before

RECURSIVE SortedSeq(_)
SortedSeq(S) ==
    IF S = {} THEN <<>>
    ELSE LET m == CHOOSE x \in S : \A y \in S : x <= y
         IN  <<m>> \o SortedSeq(S \ {m})

ReferenceScan(arr, lo, hi) ==
    LET accepted == {i \in 1..(Len(arr) - 1) : RefLast(arr, i, lo, hi) = i}
    IN  IF Cardinality(accepted) >= 2 THEN SortedSeq(accepted) ELSE <<>>

\* C1: on a sequence of finite codes 0..4 with at least two distinct codes and
\* minLen <= maxLen, find_gait_cycles returns exactly the reference scan
\* (accept index i iff code[i-1]=4, code[i]=0 and minLen <= i - lastBoundary
\* <= maxLen; fewer than 2 accepted gives the empty list); the pattern
\* 0,1,2,3,4 repeated three times with minLen=5, maxLen=1000 yields [5,10].
C1_DetectMatchesReference ==
    pc = "detected" =>
        /\ ( /\ \A i \in DOMAIN state_arr : IsCode(state_arr[i])
             /\ Cardinality(Range(state_arr)) >= 2
             /\ min_cycle_length <= max_cycle_length )
           => cycles = ReferenceScan(state_arr, min_cycle_length,
                                     max_cycle_length)
        /\ ( state_arr = ExampleStates /\ min_cycle_length = 5
             /\ max_cycle_length = DefaultMaxCycleLength )
           => cycles = <<5, 10>>

C1_Witness ==
    /\ pc = "detected"
    /\ state_arr = ExampleStates
    /\ cycles = <<5, 10>>

\* C2: a non-empty boundary list returned by find_gait_cycles is strictly
\* increasing, has at least 2 boundaries, and every interval between
\* consecutive boundaries has a length in [minLen, maxLen].
C2_BoundariesWellFormed ==
    (pc = "detected" /\ cycles # <<>>) =>
        /\ Len(cycles) >= 2
        /\ \A i \in 1..(Len(cycles) - 1) :
              /\ cycles[i] < cycles[i + 1]
              /\ min_cycle_length <= cycles[i + 1] - cycles[i]
              /\ cycles[i + 1] - cycles[i] <= max_cycle_length

\* three boundaries found under a narrow length window
C2_Witness ==
    /\ pc = "detected"
    /\ Len(cycles) >= 3
    /\ min_cycle_length = 2
    /\ max_cycle_length = 3

\* C3: every boundary b returned by find_gait_cycles is an index into the
\* sequence that was passed in at which a heel strike occurs (code 4 at b-1,
\* code 0 at b), whether or not the sequence has non-finite entries.
C3_BoundariesIndexInput ==
    pc = "detected" =>
        \A i \in DOMAIN cycles : HeelStrikeAt(state_arr, cycles[i])

\* state validation fails: empty, no finite entry, a rounded code outside
\* 0..4, or fewer than 2 distinct codes
ValidationFails(arr) ==
    LET finite == {i \in DOMAIN arr : isfinite(arr[i])}
    IN  \/ Len(arr) = 0
        \/ finite = {}
        \/ \E i \in finite : CodeOf(arr[i]) \notin 0..4
        \/ Cardinality({CodeOf(arr[i]) : i \in finite}) < 2

\* C4: on every state sequence on which state validation fails,
\* find_gait_cycles returns the empty list (any exception is caught inside
\* the function and also turned into the empty list).
C4_InvalidStatesGiveEmpty ==
    (pc = "detected" /\ ValidationFails(state_arr)) => cycles = <<>>

\* an invalid sequence that does contain acceptable heel strikes
C4_Witness ==
    /\ pc = "detected"
    /\ ValidationFails(state_arr)
    /\ Cardinality({i \in 1..(Len(state_arr) - 1) :
                       HeelStrikeAt(state_arr, i)}) >= 2
    /\ min_cycle_length = 1
    /\ cycles = <<>>

\* the validated state column of the scan, and its 4 -> 0 candidates (the
\* 0-based index of the EarlyStance sample)
ScanStates == validate_state_data(state_arr).clean

Candidates ==
    {i \in 1..(Len(ScanStates) - 1) :
        ScanStates[i] = 4 /\ ScanStates[i + 1] = 0}

\* the last boundary accepted before candidate i, index 0 if there is none
ReferenceOf(i) ==
    LET before == {b \in Range(scan_cycles) : b < i}
    IN  IF before = {} THEN 0
        ELSE CHOOSE b \in before : \A c \in before : c <= b

RejectedAsTooLong(i) == i - ReferenceOf(i) > max_cycle_length

\* C21: a candidate is accepted exactly when its length, measured from the
\* last accepted boundary (index 0 if none), is within [min_cycle_length,
\* max_cycle_length]; a discarded candidate is no reference for a later one,
\* and after a candidate rejected as too long no candidate is accepted
C21_RejectionKeepsReference ==
    (pc = "detected" /\ validate_state_data(state_arr).ok) =>
        /\ Range(scan_cycles) \subseteq Candidates
        /\ \A i \in Candidates :
               /\ i \in Range(scan_cycles)
                  <=> /\ min_cycle_length <= i - ReferenceOf(i)
                      /\ i - ReferenceOf(i) <= max_cycle_length
               /\ RejectedAsTooLong(i) =>
                      \A j \in Candidates : j > i => j \notin Range(scan_cycles)
        /\ cycles = IF Len(scan_cycles) < 2 THEN <<>> ELSE scan_cycles

\* two boundaries were accepted, a third candidate was rejected as too long,
\* and a fourth, whose distance from the third is within the limits, was
\* rejected as well
C21_Witness ==
    /\ pc = "detected"
    /\ Len(cycles) = 2
    /\ \E i \in Candidates, j \in Candidates :
          /\ cycles[2] < i /\ i < j
          /\ RejectedAsTooLong(i)
          /\ min_cycle_length <= j - i /\ j - i <= max_cycle_length
          /\ j \notin Range(cycles)

-----------------------------------------------------------------------------
(* State validation as a pure function: the inputs of cycle detection, one *)
(* call                                                                    *)

\* raw state samples next to the limits of the range: -0.5 and 4.5 round
\* (half to even) to 0 and 4, 4.75 rounds to 5, -1 is out of range
EdgeVals == {Rat(-1, 2), FromInt(-1), FromInt(1), Rat(9, 2), Rat(19, 4), PInf}

ValidateStateData ==
    /\ pc = "init"
    /\ pc' = "validated"
    /\ validation' = validate_state_data(state_arr)
    /\ UNCHANGED <<state_arr, data_arr, min_cycle_length, max_cycle_length,
                   cycles, start_idx, end_idx, n_points, resampled,
                   STATISTICS_CONFIG, VALIDATION_CONFIG, phase_stats,
                   prev_stats, last_config, prev_config, n_calls, stat_args,
                   math_out>>
    /\ UNCHANGED batchVars
    /\ UNCHANGED localVars
    /\ UNCHANGED appVars

InitValidate ==
    /\ pc = "init"
    /\ state_arr \in SeqsUpTo(DetectVals, MaxStateLen)
                     \cup SeqsUpTo(EdgeVals, MaxStateLen)
    /\ data_arr = <<>>
    /\ cycles = <<>>
    /\ DetectIdle
    /\ ResampleIdle
    /\ ConfigIdle
    /\ StatsIdle
    /\ CallsIdle
    /\ BatchIdle
    /\ LocalsIdle
    /\ AppIdle

NextValidate == ValidateStateData

SpecValidate == InitValidate /\ [][NextValidate]_vars

-----------------------------------------------------------------------------
(* Properties of state validation *)

\* 1-based positions of the finite entries of state_arr
FinitePositions == {i \in DOMAIN state_arr : isfinite(state_arr[i])}

\* the positions whose rounded value is not one of the codes 0..4
OffendingPositions == {i \in FinitePositions : CodeOf(state_arr[i]) \notin 0..4}

\* s holds the rounded finite entries of state_arr in their original order:
\* an order-preserving one-to-one match of its positions with the finite ones
IsRoundedFiniteInOrder(s) ==
    /\ Len(s) = Cardinality(FinitePositions)
    /\ \A i \in FinitePositions :
          s[Cardinality({j \in FinitePositions : j <= i})] = CodeOf(state_arr[i])

\* C15: validate_state_data returns ok = true if and only if, after dropping
\* non-finite entries and rounding to the nearest integer, at least one entry
\* remains, every entry lies in 0..4 and at least 2 distinct codes occur; when
\* ok is true the cleaned sequence is the rounded finite entries in original
\* order, and when ok is false because of an out-of-range code the message
\* reports the number of offending entries.
C15_StateValidation ==
    pc = "validated" =>
        /\ validation.ok <=>
              /\ FinitePositions # {}
              /\ OffendingPositions = {}
              /\ Cardinality({CodeOf(state_arr[i]) : i \in FinitePositions}) >= 2
        /\ validation.ok => IsRoundedFiniteInOrder(validation.clean)
        /\ (FinitePositions # {} /\ OffendingPositions # {}) =>
              /\ validation.why = "out_of_range"
              /\ validation.invalid_count = Cardinality(OffendingPositions)

\* a sequence with non-finite entries whose values at the limits round into
\* the range (-0.5 to 0, 4.5 to 4) and is valid
C15_Witness ==
    /\ pc = "validated"
    /\ validation.ok
    /\ \E i \in DOMAIN state_arr : state_arr[i] = Rat(-1, 2)
    /\ \E i \in DOMAIN state_arr : state_arr[i] = Rat(9, 2)
    /\ \E i \in DOMAIN state_arr : ~isfinite(state_arr[i])
    /\ Range(validation.clean) = {0, 4}

-----------------------------------------------------------------------------
(* Cycle normalisation as a pure function: inputs drawn in Init, one call *)

ResampleVals == {FromInt(-2), FromInt(3), NaN, PInf}

\* the program always resamples to RESAMPLE_POINTS; smaller grids are
\* drawn as well
ResamplePoints == {2, 5, RESAMPLE_POINTS}

InitResample ==
    /\ pc = "init"
    /\ data_arr \in SeqsUpTo(ResampleVals, MaxDataLen)
    /\ start_idx \in -1..MaxDataLen
    /\ end_idx \in -1..MaxDataLen
    /\ n_points \in ResamplePoints
    /\ resampled = <<>>
    /\ state_arr = <<>>
    /\ cycles = <<>>
    /\ DetectIdle
    /\ ConfigIdle
    /\ StatsIdle
    /\ CallsIdle
    /\ BatchIdle
    /\ LocalsIdle
    /\ AppIdle

ResampleCycle ==
    /\ pc = "init"
    /\ pc' = "resampled"
    /\ resampled' = resample_cycle(data_arr, start_idx, end_idx, n_points)
    /\ UNCHANGED <<state_arr, data_arr, min_cycle_length, max_cycle_length,
                   cycles, start_idx, end_idx, n_points, STATISTICS_CONFIG,
                   VALIDATION_CONFIG, phase_stats, prev_stats, last_config,
                   prev_config, n_calls>>
    /\ UNCHANGED callVars
    /\ UNCHANGED batchVars
    /\ UNCHANGED localVars
    /\ UNCHANGED appVars

NextResample == ResampleCycle

SpecResample == InitResample /\ [][NextResample]_vars

-----------------------------------------------------------------------------
(* Properties of cycle normalisation *)

ValidSegment == 0 <= start_idx /\ start_idx < end_idx /\ end_idx < Len(data_arr)

\* 1-based positions of the inclusive segment data[start..end]
SegmentPositions == (start_idx + 1)..(end_idx + 1)

FiniteInSegment == {i \in SegmentPositions : isfinite(data_arr[i])}

AllNaN(s) == \A i \in DOMAIN s : isnan(s[i])

\* C9: resample_cycle returns exactly N elements on every path, and the
\* result is entirely NaN when start < 0, end >= len(data), start >= end, or
\* the inclusive segment data[start..end] holds fewer than 2 finite values.
C9_ResampleLengthAndNaN ==
    pc = "resampled" =>
        /\ Len(resampled) = n_points
        /\ (~ValidSegment \/ Cardinality(FiniteInSegment) < 2)
              => AllNaN(resampled)

\* valid indices, a segment with an infinite entry and a single finite one
C9_Witness ==
    /\ pc = "resampled"
    /\ ValidSegment
    /\ Cardinality(FiniteInSegment) = 1
    /\ \A i \in SegmentPositions : ~isnan(data_arr[i])
    /\ n_points = RESAMPLE_POINTS
    /\ Len(resampled) = RESAMPLE_POINTS
    /\ AllNaN(resampled)

\* C10: for valid 0 <= start < end < len(data) and a segment of finite
\* values only, every output element lies within [min(segment),
\* max(segment)], the first equals data[start] and the last equals data[end]
\* (the grid has both end points, n_points >= 2).
C10_ResampleBoundedEndpoints ==
    (pc = "resampled" /\ ValidSegment /\ FiniteInSegment = SegmentPositions) =>
        /\ \A i \in DOMAIN resampled :
              /\ \E m \in SegmentPositions : FLeq(data_arr[m], resampled[i])
              /\ \E m \in SegmentPositions : FLeq(resampled[i], data_arr[m])
        /\ resampled[1] = data_arr[start_idx + 1]
        /\ resampled[Len(resampled)] = data_arr[end_idx + 1]

\* a finite segment of three samples with a turning point, resampled to the
\* program's grid: some output is strictly between two different samples
C10_Witness ==
    /\ pc = "resampled"
    /\ ValidSegment
    /\ FiniteInSegment = SegmentPositions
    /\ end_idx - start_idx >= 2
    /\ data_arr[start_idx + 1] # data_arr[start_idx + 2]
    /\ data_arr[end_idx + 1] # data_arr[start_idx + 1]
    /\ n_points = RESAMPLE_POINTS
    /\ \E i \in DOMAIN resampled :
          \A m \in SegmentPositions : resampled[i] # data_arr[m]

-----------------------------------------------------------------------------
(* Phase aggregation as a pure function: inputs drawn in Init, one call *)

ToFloats(ints) == SeqMap(ints, FromInt)

Repeat(x, n) == Tuple([i \in 1..n |-> x])

\* one gait cycle: runs of the codes 0,1,2,3,4 with the given lengths
CycleOf(runs) ==
    Repeat(0, runs[1]) \o Repeat(1, runs[2]) \o Repeat(2, runs[3])
    \o Repeat(3, runs[4]) \o Repeat(4, runs[5])

\* a state column with two complete cycles: a Landing sample, the two
\* cycles, and the first sample of a third one
TwoCycleStates(runs1, runs2) ==
    ToFloats(<<4>> \o CycleOf(runs1) \o CycleOf(runs2) \o <<0>>)

\* the heel strikes of TwoCycleStates
TwoCycleBoundaries(runs1, runs2) ==
    LET len1 == runs1[1] + runs1[2] + runs1[3] + runs1[4] + runs1[5]
        len2 == runs2[1] + runs2[2] + runs2[3] + runs2[4] + runs2[5]
    IN  <<1, 1 + len1, 1 + len1 + len2>>

\* run lengths of a cycle: every phase lasts 1 sample or every phase lasts
\* MaxRun samples, but for at most one phase, which lasts the other length
ShortRuns ==
    {runs \in [1..5 -> {1, MaxRun}] :
        \/ Cardinality({i \in 1..5 : runs[i] = 1}) <= 1
        \/ Cardinality({i \in 1..5 : runs[i] = MaxRun}) <= 1}

\* cycles of RESAMPLE_POINTS samples, and of more, with a one-sample phase
LongRuns == {<<1, 1, 33, 33, 33>>, <<3, 1, 39, 39, 39>>, <<39, 39, 39, 1, 3>>}

\* data columns of length n: a saw-tooth, the saw-tooth with a spike, and
\* the saw-tooth with NaN at every odd index
DataRamp(n) == Tuple([i \in 1..n |-> FromInt((i - 1) % 3)])

DataSpike(n) ==
    Tuple([i \in 1..n |-> IF i % 7 = 0 THEN FromInt(2) ELSE FromInt(0)])

DataGaps(n) ==
    Tuple([i \in 1..n |-> IF i % 2 = 0 THEN NaN ELSE FromInt((i - 1) % 3)])

\* raw state samples of the short trials
TrialVals == {FromInt(0), FromInt(1), NaN}

\* trials whose boundaries are the heel strikes find_gait_cycles reports for
\* them: one whose state skips codes, one whose state column starts with NaN
SkipTrial ==
    [state |-> ToFloats(<<4, 0, 2, 4, 0, 2, 4, 0>>), boundaries |-> <<1, 4, 7>>]

GapTrial ==
    [state |-> <<NaN>> \o ToFloats(<<4, 0, 1, 4, 0, 1, 4, 0>>),
     boundaries |-> <<1, 4, 7>>]

InitPhase ==
    /\ pc = "init"
    /\ \/ \E runs1 \in ShortRuns, runs2 \in ShortRuns :
             /\ state_arr = TwoCycleStates(runs1, runs2)
             /\ cycles = TwoCycleBoundaries(runs1, runs2)
             /\ data_arr \in {DataRamp(Len(state_arr)),
                              DataGaps(Len(state_arr))}
       \/ \E runs1 \in LongRuns, runs2 \in LongRuns :
             /\ state_arr = TwoCycleStates(runs1, runs2)
             /\ cycles = TwoCycleBoundaries(runs1, runs2)
             /\ data_arr = DataRamp(Len(state_arr))
       \/ /\ state_arr \in SeqsUpTo(TrialVals, MaxTrialLen)
          /\ cycles \in SeqsUpTo(-1..MaxTrialLen, 3)
          /\ data_arr \in {DataRamp(Len(state_arr)),
                           DataGaps(MaxTrialLen + 1)}
       \/ \E trial \in {SkipTrial, GapTrial} :
             /\ state_arr = trial.state
             /\ cycles = trial.boundaries
             /\ data_arr \in {DataRamp(Len(state_arr)),
                              DataGaps(Len(state_arr))}
    /\ DetectIdle
    /\ ResampleIdle
    /\ ConfigIdle
    /\ StatsIdle
    /\ CallsIdle
    /\ BatchIdle
    /\ LocalsIdle
    /\ AppIdle

\* a caller computes the phase statistics of (data_arr, state_arr, cycles)
CalculateStatistics ==
    /\ pc \in {"init", "idle"}
    /\ n_calls < MaxCalls
    /\ pc' = IF pc = "init" THEN "calculated" ELSE pc
    /\ phase_stats' =
           calculate_dynamic_gait_phase_statistics(data_arr, state_arr, cycles)
    /\ prev_stats' = phase_stats
    /\ last_config' = STATISTICS_CONFIG
    /\ prev_config' = last_config
    /\ n_calls' = n_calls + 1
    /\ UNCHANGED <<state_arr, data_arr, min_cycle_length, max_cycle_length,
                   cycles, start_idx, end_idx, n_points, resampled,
                   STATISTICS_CONFIG, VALIDATION_CONFIG>>
    /\ normalized_cycles' =
           LoopOutcomes(data_arr, state_arr, cycles, STATISTICS_CONFIG)
    /\ UNCHANGED callVars
    /\ UNCHANGED batchVars
    /\ UNCHANGED <<scan_cycles, state_cycle, phase_ranges>>
    /\ UNCHANGED appVars

NextPhase == CalculateStatistics

SpecPhase == InitPhase /\ [][NextPhase]_vars

-----------------------------------------------------------------------------
(* Properties of phase aggregation *)

BoundaryOutside ==
    \E i \in DOMAIN cycles : cycles[i] < 0 \/ cycles[i] >= Len(data_arr)

RECURSIVE SumTo(_, _)
SumTo(f, n) == IF n = 0 THEN 0 ELSE f[n] + SumTo(f, n - 1)

\* the population standard deviation of the intervals between consecutive
\* boundaries exceeds half their mean, over the integers: with n intervals
\* d, S = sum d and Q = sum d^2, std^2 = (n*Q - S^2)/n^2 and mean = S/n
Irregular(cyc) ==
    LET n == Len(cyc) - 1
        d == [i \in 1..n |-> cyc[i + 1] - cyc[i]]
        sq == [i \in 1..n |-> d[i] * d[i]]
        S == SumTo(d, n)
        Q == SumTo(sq, n)
    IN  n >= 1 /\ (S < 0 \/ 4 * (n * Q - S * S) > S * S)

\* C5: calculate_dynamic_gait_phase_statistics returns {} whenever the
\* boundary list has fewer than 2 entries, or a boundary lies outside
\* [0, len(data)), or the population standard deviation of the boundary
\* intervals exceeds half their mean, or the state sequence fails validation.
C5_RejectedInputsGiveEmpty ==
    ( /\ pc = "calculated"
      /\ \/ Len(cycles) < 2
         \/ BoundaryOutside
         \/ Irregular(cycles)
         \/ ValidationFails(state_arr) )
    => phase_stats = EmptyMap

\* three increasing boundaries inside the data and a valid state column,
\* rejected for the irregular intervals alone
C5_Witness ==
    /\ pc = "calculated"
    /\ Len(cycles) = 3
    /\ cycles[1] < cycles[2]
    /\ cycles[2] < cycles[3]
    /\ ~BoundaryOutside
    /\ ~ValidationFails(state_arr)
    /\ Irregular(cycles)
    /\ phase_stats = EmptyMap

\* the samples of one cycle are the codes 0,1,2,3,4 in this order, each at
\* least once
KnownPattern(seg) ==
    /\ Len(seg) >= 5
    /\ \A i \in DOMAIN seg : IsCode(seg[i])
    /\ seg[1].n = 0
    /\ seg[Len(seg)].n = 4
    /\ \A i \in 1..(Len(seg) - 1) : seg[i + 1].n - seg[i].n \in {0, 1}

\* a trial with finite data whose three boundaries delimit two complete
\* cycles of the known pattern
TwoCompleteCycles ==
    /\ Len(cycles) = 3
    /\ Len(data_arr) = Len(state_arr)
    /\ 0 <= cycles[1]
    /\ cycles[1] < cycles[2]
    /\ cycles[2] < cycles[3]
    /\ cycles[3] < Len(data_arr)
    /\ \A i \in DOMAIN data_arr : isfinite(data_arr[i])
    /\ \A i \in DOMAIN state_arr : IsCode(state_arr[i])
    /\ KnownPattern(PySlice(state_arr, cycles[1], cycles[2]))
    /\ KnownPattern(PySlice(state_arr, cycles[2], cycles[3]))

\* records for the five canonical phases, each with count > 0, whose
\* data_coverage values sum to 100
AllPhasesCovered ==
    /\ \A i \in DOMAIN PhaseNames :
          /\ PhaseNames[i] \in DOMAIN phase_stats
          /\ phase_stats[PhaseNames[i]].count > 0
    /\ LET coverage == [i \in DOMAIN PhaseNames |->
                           phase_stats[PhaseNames[i]].data_coverage]
       IN  FAdd(coverage[1],
                FAdd(coverage[2],
                     FAdd(coverage[3], FAdd(coverage[4], coverage[5]))))
           = FromInt(100)

\* C7 as stated: every trial with finite data and two complete cycles of the
\* known pattern gets records for all five phases, each with count > 0, and
\* coverage summing to 100.
C7_TwoCyclesAllPhases ==
    (pc = "calculated" /\ TwoCompleteCycles) => AllPhasesCovered

\* no cycle is longer than the normalised grid
CyclesFitGrid ==
    \A i \in 1..(Len(cycles) - 1) : cycles[i + 1] - cycles[i] <= RESAMPLE_POINTS

\* C7, amended: a trial with finite data and two complete cycles of the known
\* pattern, whose two cycle lengths pass the regularity test (std <= 0.5 mean)
\* and which are at most RESAMPLE_POINTS samples long each, gets records for
\* all five phases, each with count > 0, and coverage summing to 100.
C7_RegularTwoCyclesAllPhases ==
    ( /\ pc = "calculated"
      /\ TwoCompleteCycles
      /\ ~Irregular(cycles)
      /\ CyclesFitGrid )
    => AllPhasesCovered

\* two cycles of different lengths with one-sample phases
C7_Witness ==
    /\ pc = "calculated"
    /\ TwoCompleteCycles
    /\ ~Irregular(cycles)
    /\ CyclesFitGrid
    /\ cycles[2] - cycles[1] # cycles[3] - cycles[2]
    /\ \E i \in (cycles[1] + 2)..cycles[2] :
          /\ state_arr[i - 1] # state_arr[i]
          /\ state_arr[i] # state_arr[i + 1]
    /\ AllPhasesCovered

\* the call passed its preconditions and normalised at least one cycle
ProcessedACycle ==
    /\ Len(cycles) >= DefaultMinCycles
    /\ validate_gait_cycles(cycles, Len(data_arr), DefaultMinCycles)
    /\ validate_state_data(state_arr).ok
    /\ LET normalized == NormalizedCycles(data_arr,
                             validate_state_data(state_arr).clean, cycles)
       IN  ~normalized.raised /\ Len(normalized.list) > 0

\* the record of a phase without data
IsEmptyRecord(r) ==
    /\ r.count = 0
    /\ isnan(r.mean)
    /\ isnan(r.std)
    /\ isnan(r.max)
    /\ isnan(r.min)
    /\ isnan(r.median)

\* C8 as stated: a call that passes its preconditions and processes at least
\* one cycle returns all five canonical phase names as keys, the phases
\* without data with count = 0 and NaN statistics.
C8_AllPhasesEnumerable ==
    (pc = "calculated" /\ ProcessedACycle) =>
        /\ DOMAIN phase_stats = Range(PhaseNames)
        /\ \A name \in DOMAIN phase_stats :
              phase_stats[name].count = 0 => IsEmptyRecord(phase_stats[name])

\* the phases seen in the normalised cycles in which find_state_transitions
\* finds transitions (those with at least 2 distinct codes)
ObservedPhases ==
    LET normalized == NormalizedCycles(data_arr,
                          validate_state_data(state_arr).clean, cycles).list
        Codes(i) == Range(normalized[i].state)
    IN  UNION {{PhaseNames[c + 1] : c \in Codes(i)} :
                  i \in {m \in DOMAIN normalized : Cardinality(Codes(m)) >= 2}}

\* C8, amended: a call that passes its preconditions and processes at least
\* one cycle returns as keys exactly the phases observed in a normalised
\* cycle with at least 2 distinct codes (none when there is no such cycle);
\* an observed phase without a finite value has count = 0 and NaN statistics,
\* and every other key has count > 0.
C8_ObservedPhasesEnumerable ==
    (pc = "calculated" /\ ProcessedACycle) =>
        /\ DOMAIN phase_stats = ObservedPhases
        /\ \A name \in DOMAIN phase_stats :
              \/ phase_stats[name].count > 0
              \/ IsEmptyRecord(phase_stats[name])

\* an observed phase without a finite value next to one with values, and a
\* canonical phase that was never observed
C8_Witness ==
    /\ pc = "calculated"
    /\ ProcessedACycle
    /\ \E name \in DOMAIN phase_stats : phase_stats[name].count = 0
    /\ \E name \in DOMAIN phase_stats : phase_stats[name].count > 0
    /\ DOMAIN phase_stats # Range(PhaseNames)

-----------------------------------------------------------------------------
(* utils/math_utils.py as pure functions: inputs drawn in Init, one call   *)
(* of every function on the same input                                     *)

\* raw samples: finite values of both signs, one of them far from the
\* others, and the three non-finite values
StatVals == {FromInt(-1), Rat(5, 2), FromInt(40), NaN, PInf, NInf}

\* the sequence 1..10 of the tests
OneToTen == Tuple([i \in 1..10 |-> FromInt(i)])

\* four, five and six finite values with one outlier, and with non-finite
\* entries in between
OutlierSamples ==
    {ToFloats(<<-1, -1, 40, -1, -1>>),
     <<FromInt(-1), NaN, FromInt(-1), FromInt(40), FromInt(-1)>>,
     <<FromInt(2), NaN, FromInt(1), FromInt(1), PInf, FromInt(40), FromInt(1),
       FromInt(3)>>}

InitStats ==
    /\ pc = "init"
    /\ data_arr \in SeqsUpTo(StatVals, MaxArrLen) \cup {OneToTen}
                    \cup OutlierSamples
    /\ stat_args \in [ddof : {0, 1}, remove_outliers : BOOLEAN]
    /\ math_out = EmptyMap
    /\ validation = EmptyMap
    /\ BatchIdle
    /\ LocalsIdle
    /\ AppIdle
    /\ state_arr = <<>>
    /\ cycles = <<>>
    /\ DetectIdle
    /\ ResampleIdle
    /\ ConfigIdle
    /\ StatsIdle

\* a caller applies validate_data, the safe_ functions and
\* calculate_comprehensive_stats to data_arr; "raised" would record an
\* exception leaving one of them, and no path of the functions raises
ComputeStatistics ==
    /\ pc = "init"
    /\ pc' = "computed"
    /\ math_out' =
          [clean |-> validate_data(data_arr, stat_args.remove_outliers),
           mean |-> safe_mean(data_arr, stat_args.remove_outliers),
           std |-> safe_std(data_arr, stat_args.ddof,
                            stat_args.remove_outliers),
           min |-> safe_min(data_arr, stat_args.remove_outliers),
           max |-> safe_max(data_arr, stat_args.remove_outliers),
           median |-> safe_median(data_arr, stat_args.remove_outliers),
           stats |-> calculate_comprehensive_stats(data_arr, stat_args.ddof,
                         stat_args.remove_outliers)]
    /\ UNCHANGED <<state_arr, data_arr, min_cycle_length, max_cycle_length,
                   cycles, start_idx, end_idx, n_points, resampled,
                   STATISTICS_CONFIG, VALIDATION_CONFIG, phase_stats,
                   prev_stats, last_config, prev_config, n_calls, stat_args,
                   validation>>
    /\ UNCHANGED batchVars
    /\ UNCHANGED localVars
    /\ UNCHANGED appVars

NextStats == ComputeStatistics

SpecStats == InitStats /\ [][NextStats]_vars

-----------------------------------------------------------------------------
(* Properties of the math_utils functions *)

\* the finite entries of data_arr, in their original order
FiniteEntries == SelectSeq(data_arr, isfinite)

NonFiniteCount == Cardinality({i \in DOMAIN data_arr : ~isfinite(data_arr[i])})

NaNCount == Cardinality({i \in DOMAIN data_arr : isnan(data_arr[i])})

InfCount == Cardinality({i \in DOMAIN data_arr : isinf(data_arr[i])})

\* C12: for every input sequence calculate_comprehensive_stats reports
\* total_count = len(input), nan_count and inf_count equal to the numbers of
\* NaN and infinite entries, valid_count = total_count - nan_count - inf_count,
\* count = valid_count (for either remove_outliers setting) and
\* finite_percentage = valid_count / total_count * 100, which is 0.0 when
\* total_count = 0; for the empty sequence count = 0 and mean is NaN, and for
\* 1..10 mean = 5.5, min = 1, max = 10, count = 10, finite_percentage = 100.
C12_ComprehensiveCounts ==
    pc = "computed" =>
        LET result == math_out.stats
        IN  /\ result.total_count = Len(data_arr)
            /\ result.nan_count = NaNCount
            /\ result.inf_count = InfCount
            /\ result.valid_count = Len(data_arr) - NaNCount - InfCount
            /\ result.count = result.valid_count
            /\ result.finite_percentage =
                  IF Len(data_arr) = 0 THEN FromInt(0)
                  ELSE FMul(FDivFin(FromInt(result.valid_count),
                                    FromInt(Len(data_arr))), FromInt(100))
            /\ data_arr = <<>> => (result.count = 0 /\ isnan(result.mean))
            /\ data_arr = OneToTen =>
                  /\ result.mean = Rat(11, 2)
                  /\ result.min = FromInt(1)
                  /\ result.max = FromInt(10)
                  /\ result.count = 10
                  /\ result.finite_percentage = FromInt(100)

\* a sequence with NaN and infinite entries from which the outlier step
\* drops a finite value: count is still the number of finite values
C12_Witness ==
    /\ pc = "computed"
    /\ stat_args.remove_outliers
    /\ NaNCount >= 1
    /\ InfCount >= 1
    /\ Len(math_out.clean) < Len(FiniteEntries)
    /\ math_out.stats.count = Len(FiniteEntries)
    /\ math_out.stats.max # FromInt(40)

\* the sum of the first n entries of a sequence of floats
RECURSIVE FloatSum(_, _)
FloatSum(s, n) == IF n = 0 THEN FromInt(0) ELSE FAdd(FloatSum(s, n - 1), s[n])

\* the arithmetic mean of a non-empty sequence of finite floats
MeanOf(s) == FDivFin(FloatSum(s, Len(s)), FromInt(Len(s)))

\* sum((x - mean)^2) / (n - ddof), the square of the standard deviation
VarianceOf(s, ddof) ==
    LET m == MeanOf(s)
        sq == [i \in 1..Len(s) |-> FMul(FSub(s[i], m), FSub(s[i], m))]
    IN  FDivFin(FloatSum(sq, Len(s)), FromInt(Len(s) - ddof))

\* the i-th smallest entry of s: more than i - 1 entries are not above it
\* and fewer than i are below it
OrderStatistic(s, i) ==
    CHOOSE v \in Range(s) :
        /\ Cardinality({j \in DOMAIN s : FLess(s[j], v)}) < i
        /\ Cardinality({j \in DOMAIN s : FLeq(s[j], v)}) >= i

MedianOf(s) ==
    IF Len(s) % 2 = 1 THEN OrderStatistic(s, (Len(s) + 1) \div 2)
    ELSE FDivFin(FAdd(OrderStatistic(s, Len(s) \div 2),
                      OrderStatistic(s, Len(s) \div 2 + 1)), FromInt(2))

\* C13: safe_mean, safe_min, safe_max and safe_median return NaN exactly when
\* the input has no finite value and otherwise (called without outlier
\* removal, as by default) the statistic of the finite values only; safe_std
\* returns NaN exactly when the input has at most one finite value, for
\* ddof = 0 and for ddof = 1 alike (otherwise the standard deviation of the
\* finite values, kept as its square); none of them raises.
C13_SafeStatisticsNaN ==
    pc = "computed" =>
        /\ \A name \in {"mean", "min", "max", "median"} :
              isnan(math_out[name]) <=> Len(FiniteEntries) = 0
        /\ isnan(math_out.std) <=> Len(FiniteEntries) <= 1
        /\ (Len(FiniteEntries) >= 1 /\ ~stat_args.remove_outliers) =>
              /\ math_out.mean = MeanOf(FiniteEntries)
              /\ math_out.min = OrderStatistic(FiniteEntries, 1)
              /\ math_out.max = OrderStatistic(FiniteEntries,
                                               Len(FiniteEntries))
              /\ math_out.median = MedianOf(FiniteEntries)
        /\ (Len(FiniteEntries) >= 2 /\ ~stat_args.remove_outliers) =>
              math_out.std = VarianceOf(FiniteEntries, stat_args.ddof)

\* one finite value among non-finite ones: a mean, no standard deviation,
\* for the population setting ddof = 0
C13_Witness ==
    /\ pc = "computed"
    /\ stat_args.ddof = 0
    /\ Len(FiniteEntries) = 1
    /\ Len(data_arr) >= 3
    /\ math_out.mean = FiniteEntries[1]
    /\ isnan(math_out.std)

-----------------------------------------------------------------------------
(* utils/gait_analysis.py : get_leg_and_state_col, and                     *)
(* src/motion_analysis_app.py : analyze_data, one action per loop step     *)

\* config/constants.py
STATE_COLS == [right |-> "leg1_r.state", left |-> "leg0_l.state"]

\* Python's None, where a string is expected
None == "None"

\* the characters of the column names of the modelled tables
Characters ==
    [knee_angle_r |-> <<"k", "n", "e", "e", "_", "a", "n", "g", "l", "e", "_", "r">>,
     GRF_L |-> <<"G", "R", "F", "_", "L">>,
     time |-> <<"t", "i", "m", "e">>,
     comment |-> <<"c", "o", "m", "m", "e", "n", "t">>,
     value |-> <<"v", "a", "l", "u", "e">>]

\* str.lower on one character
LowerChar(c) ==
    CASE c = "G" -> "g" [] c = "R" -> "r" [] c = "F" -> "f" [] c = "L" -> "l"
      [] OTHER -> c

\* str.lower
Lower(chars) == [i \in DOMAIN chars |-> LowerChar(chars[i])]

\* Python's "sub in chars" for strings
Contains(chars, sub) ==
    \E i \in 1..(Len(chars) - Len(sub) + 1) :
        SubSeq(chars, i, i + Len(sub) - 1) = sub

\* lines 24-32; the leg labels are written in English here
get_leg_and_state_col(var) ==
    LET var_lower == Lower(Characters[var])
    IN  IF Contains(var_lower, <<"_", "r">>)
           \/ Contains(var_lower, <<"r", "i", "g", "h", "t">>)
        THEN [leg_label |-> "right leg", state_col |-> STATE_COLS.right]
        ELSE IF Contains(var_lower, <<"_", "l">>)
                \/ Contains(var_lower, <<"l", "e", "f", "t">>)
        THEN [leg_label |-> "left leg", state_col |-> STATE_COLS.left]
        ELSE [leg_label |-> None, state_col |-> None]

\* os.path.basename of a path kept as (directory, name)
basename(path) == path.name

\* a section of the report text
Section(kind, file_name, var) == [kind |-> kind, file |-> file_name, var |-> var]

\* the body of the try statement of lines 560-593 for one variable of one
\* table, with an exception raised at the place fault names: whether an
\* exception leaves the body, the place at which one was raised, and
\* app.analysis_results and the text added to app.results_data by then
TryVariable(df, file_name, var, fault) ==
    IF var \notin DOMAIN df THEN
        [raised |-> FALSE, site |-> "none", results |-> analysis_results,
         text |-> <<Section("var_not_exist", file_name, var)>>]
    ELSE IF ~df[var].numeric THEN
        [raised |-> FALSE, site |-> "none", results |-> analysis_results,
         text |-> <<Section("not_numeric", file_name, var)>>]
    ELSE IF fault = "prepare" THEN
        [raised |-> TRUE, site |-> "prepare", results |-> analysis_results,
         text |-> <<>>]
    ELSE
        LET data_arr_ == df[var].values
            target == get_leg_and_state_col(var)
            has_state == /\ target.leg_label # None
                         /\ target.state_col # None
                         /\ target.state_col \in DOMAIN df
            state_arr_ == IF has_state THEN df[target.state_col].values ELSE <<>>
            cycles_ == IF has_state
                       THEN find_gait_cycles(state_arr_, DefaultMinCycleLength,
                                             DefaultMaxCycleLength)
                       ELSE <<>>
            analysis_key == file_name \o "_" \o var
        IN  Let(analyze_variable_comprehensive(data_arr_, has_state, state_arr_,
                                               cycles_, var, fault),
                LAMBDA analysis_result :
                    [raised |-> fault = "format",
                     site |-> IF fault = "phase" /\ ~has_state THEN "none"
                              ELSE fault,
                     results |-> (analysis_key :> analysis_result)
                                 @@ analysis_results,
                     text |-> IF fault = "format" THEN <<>>
                              ELSE <<Section("analysis", file_name, var)>>])

\* the loop body without its except clause: an exception of the body leaves
\* analyze_data through the handler of line 608
HandleVariable_NoExceptClause(attempt, file_name, var) ==
    [abort |-> attempt.raised, results |-> attempt.results,
     text |-> attempt.text]

\* the except clause of lines 595-596 around the body
HandleVariable(attempt, file_name, var) ==
    [abort |-> FALSE, results |-> attempt.results,
     text |-> IF attempt.raised
              THEN Append(attempt.text, Section("var_error", file_name, var))
              ELSE attempt.text]

\* the number of turns of the loop of line 539: zip stops at the shorter list
FileCount == IF Len(file_paths) < Len(dataframes) THEN Len(file_paths)
             ELSE Len(dataframes)

\* the rest of the state is left alone by analyze_data
BatchFrame ==
    /\ UNCHANGED <<state_arr, data_arr, min_cycle_length, max_cycle_length,
                   cycles, start_idx, end_idx, n_points, resampled,
                   STATISTICS_CONFIG, VALIDATION_CONFIG, phase_stats,
                   prev_stats, last_config, prev_config, n_calls>>
    /\ UNCHANGED callVars
    /\ UNCHANGED <<file_paths, dataframes, selected_vars>>
    /\ UNCHANGED localVars
    /\ UNCHANGED appVars

\* lines 520-537: the early returns and the reset of the results
StartAnalysis ==
    /\ pc = "ready"
    /\ IF selected_vars = <<>> \/ dataframes = <<>>
       THEN /\ pc' = "returned"
            /\ UNCHANGED <<analysis_results, results_data>>
       ELSE /\ pc' = "file"
            /\ results_data' = <<>>
            /\ analysis_results' = EmptyMap
    /\ file_idx' = 0
    /\ var_idx' = 0
    /\ UNCHANGED faulted
    /\ BatchFrame

\* lines 539-553: the file header and the validation of the table, which no
\* try statement of the loop surrounds
BeginFile ==
    /\ pc = "file"
    /\ file_idx < FileCount
    /\ \E fault \in {"none", "file"} :
          LET file_name == basename(file_paths[file_idx + 1])
          IN  IF fault = "file"
              THEN /\ pc' = "aborted"
                   /\ results_data' =
                          Append(results_data, Section("header", file_name, None))
                   /\ faulted' = faulted \cup
                          {[file |-> file_idx + 1, var |-> 0, site |-> "file"]}
              ELSE /\ pc' = "var"
                   /\ results_data' =
                          results_data
                          \o <<Section("header", file_name, None),
                               Section("gait_validation", file_name, None)>>
                   /\ UNCHANGED faulted
    /\ var_idx' = 0
    /\ UNCHANGED <<file_idx, analysis_results>>
    /\ BatchFrame

\* lines 555-596: one turn of the loop over the selected variables; the
\* progress display of line 558 is outside the try statement
AnalyzeVariable ==
    /\ pc = "var"
    /\ var_idx < Len(selected_vars)
    /\ \E fault \in FaultSites \cup {"progress"} :
          LET file_name == basename(file_paths[file_idx + 1])
              df == dataframes[file_idx + 1]
              var == selected_vars[var_idx + 1]
              here(site) == [file |-> file_idx + 1, var |-> var_idx + 1,
                             site |-> site]
          IN  IF fault = "progress"
              THEN /\ pc' = "aborted"
                   /\ faulted' = faulted \cup {here("progress")}
                   /\ UNCHANGED <<analysis_results, results_data>>
              ELSE \E attempt \in {TryVariable(df, file_name, var, fault)} :
                   \E outcome \in {HandleVariable(attempt, file_name, var)} :
                      /\ pc' = IF outcome.abort THEN "aborted" ELSE "var"
                      /\ analysis_results' = outcome.results
                      /\ results_data' = results_data \o outcome.text
                      /\ faulted' = IF attempt.site = "none" THEN faulted
                                    ELSE faulted \cup {here(attempt.site)}
    /\ var_idx' = var_idx + 1
    /\ UNCHANGED file_idx
    /\ BatchFrame

\* line 598: the file is finished
EndFile ==
    /\ pc = "var"
    /\ var_idx = Len(selected_vars)
    /\ pc' = "file"
    /\ file_idx' = file_idx + 1
    /\ UNCHANGED <<var_idx, analysis_results, results_data, faulted>>
    /\ BatchFrame

\* lines 600-606: the completion step
FinishAnalysis ==
    /\ pc = "file"
    /\ file_idx = FileCount
    /\ pc' = "done"
    /\ UNCHANGED <<file_idx, var_idx, analysis_results, results_data, faulted>>
    /\ BatchFrame

\* a numeric column and a column of text
NumericColumn(values) == [numeric |-> TRUE, values |-> values]

TextColumn == [numeric |-> FALSE, values |-> <<>>]

\* the rows of the longest column without a state column
MaxRows == 20

\* a column of n rows of which the first v are finite and the others NaN
PartlyFinite(v, n) ==
    Tuple([i \in 1..n |-> IF i <= v THEN FromInt(i) ELSE NaN])

\* the run lengths of the cycles of the state columns: cycles of
\* DefaultMinCycleLength samples and more, and cycles too short to be kept
BatchRuns == {<<2, 2, 2, 2, 2>>, <<2, 3, 4, 5, 6>>, <<1, 1, 1, 1, 1>>}

\* the data columns of the tables with a state column
DataOf(kind, n) ==
    CASE kind = "ramp" -> DataRamp(n)
      [] kind = "gaps" -> DataGaps(n)
      [] kind = "spike" -> DataSpike(n)
      [] kind = "nan" -> Repeat(NaN, n)

\* a table of one variable of the right leg and its state column
StateTable(runs1, runs2, kind) ==
    LET states == TwoCycleStates(runs1, runs2)
    IN  ("knee_angle_r" :> NumericColumn(DataOf(kind, Len(states))))
        @@ ("leg1_r.state" :> NumericColumn(states))

\* two trials of one session: the second has no time column and no comment
\* column, the first no force column
TrialA ==
    StateTable(<<2, 2, 2, 2, 2>>, <<2, 3, 4, 5, 6>>, "gaps")
    @@ ("time" :> NumericColumn(DataRamp(32)))
    @@ ("comment" :> TextColumn)

TrialB ==
    StateTable(<<2, 2, 2, 2, 2>>, <<2, 2, 2, 2, 2>>, "spike")
    @@ ("GRF_L" :> NumericColumn(DataRamp(22)))
    @@ ("leg0_l.state" :>
            NumericColumn(TwoCycleStates(<<2, 2, 2, 2, 2>>, <<2, 2, 2, 2, 2>>)))

PathA == [directory |-> "/data/session1", name |-> "trial_a.sto"]

PathB == [directory |-> "/data/session1", name |-> "trial_b.sto"]

\* the loaded files and the selection analyze_data is started with
Batches ==
    {[paths |-> <<PathA, PathB>>, tables |-> <<TrialA, TrialB>>,
      selected |-> <<"knee_angle_r", "comment", "time", "GRF_L">>],
     [paths |-> <<PathA>>, tables |-> <<TrialA>>, selected |-> <<>>],
     [paths |-> <<>>, tables |-> <<>>, selected |-> <<"time">>]}
    \cup {[paths |-> <<PathA>>,
           tables |-> <<"value" :> NumericColumn(PartlyFinite(vn[1], vn[2]))>>,
           selected |-> <<"value">>] :
              vn \in {<<v, n>> \in (0..MaxRows) \X (0..MaxRows) : v <= n}}
    \cup {[paths |-> <<PathA>>,
           tables |-> <<StateTable(runs[1], runs[2], kind)>>,
           selected |-> <<"knee_angle_r">>] :
              runs \in BatchRuns \X BatchRuns, kind \in {"ramp", "gaps", "nan"}}

InitBatch ==
    /\ pc = "ready"
    /\ \E batch \in Batches :
          /\ file_paths = batch.paths
          /\ dataframes = batch.tables
          /\ selected_vars = batch.selected
    /\ file_idx = 0
    /\ var_idx = 0
    /\ analysis_results = EmptyMap
    /\ results_data = <<>>
    /\ faulted = {}
    /\ state_arr = <<>>
    /\ data_arr = <<>>
    /\ cycles = <<>>
    /\ LocalsIdle
    /\ AppIdle
    /\ DetectIdle
    /\ ResampleIdle
    /\ ConfigIdle
    /\ StatsIdle
    /\ CallsIdle

NextBatch ==
    \/ StartAnalysis
    \/ BeginFile
    \/ AnalyzeVariable
    \/ EndFile
    \/ FinishAnalysis

SpecBatch == InitBatch /\ [][NextBatch]_vars

-----------------------------------------------------------------------------
(* Properties of analyze_data *)

\* the exceptions raised while a variable was analysed, and the others
VariableFaults ==
    {f \in faulted : f.site \in {"phase", "engine_start", "engine_end",
                                 "prepare", "format"}}

OutsideFaults == {f \in faulted : f.site \in {"file", "progress"}}

FileNameAt(i) == basename(file_paths[i])

KeyAt(i, j) == FileNameAt(i) \o "_" \o selected_vars[j]

\* the report has a section of the kind for variable j of file i
Reported(kind, i, j) ==
    Section(kind, FileNameAt(i), selected_vars[j]) \in Range(results_data)

\* what the program keeps of a fault: an empty gait-phase result with a
\* note, an error entry in the result, or an error section in the report
FaultHandled(f) ==
    LET key == KeyAt(f.file, f.var)
    IN  CASE f.site = "phase" ->
                 /\ key \in DOMAIN analysis_results
                 /\ analysis_results[key].gait_phase_statistics = EmptyMap
                 /\ "phase_error" \in Range(analysis_results[key].analysis_notes)
                 /\ "error" \notin DOMAIN analysis_results[key]
                 /\ "quality_score" \in DOMAIN analysis_results[key]
          [] f.site \in {"engine_start", "engine_end"} ->
                 /\ key \in DOMAIN analysis_results
                 /\ "error" \in DOMAIN analysis_results[key]
                 /\ "analysis_error" \in Range(analysis_results[key].analysis_notes)
          [] f.site \in {"prepare", "format"} ->
                 Reported("var_error", f.file, f.var)

\* variable j of file i is a numeric column of the table
Analysable(i, j) ==
    /\ selected_vars[j] \in DOMAIN dataframes[i]
    /\ dataframes[i][selected_vars[j]].numeric

\* variable j of file i was analysed in full
FullyAnalysed(i, j) ==
    /\ KeyAt(i, j) \in DOMAIN analysis_results
    /\ "quality_score" \in DOMAIN analysis_results[KeyAt(i, j)]
    /\ analysis_results[KeyAt(i, j)].overall_statistics # EmptyMap
    /\ Reported("analysis", i, j)

\* every selected variable of every file was dealt with
AllVariablesVisited ==
    \A i \in 1..FileCount, j \in 1..Len(selected_vars) :
        /\ \E kind \in {"analysis", "var_error", "var_not_exist", "not_numeric"} :
               Reported(kind, i, j)
        /\ (Analysable(i, j) /\ ~(\E f \in faulted : f.file = i /\ f.var = j))
           => FullyAnalysed(i, j)

\* the loops of analyze_data are inside their ranges, so that one of
\* BeginFile, AnalyzeVariable, EndFile and FinishAnalysis can be taken and
\* each of them moves the batch towards the completion step
LoopsInRange ==
    /\ pc = "file" => file_idx \in 0..FileCount
    /\ pc = "var" => /\ file_idx \in 0..(FileCount - 1)
                     /\ var_idx \in 0..Len(selected_vars)

\* C14: a fault while one variable is analysed never aborts the batch: the
\* fault leaves an empty gait-phase result with a note, an error entry or an
\* error section; analyze_data is left early only by a fault outside the
\* analysis of a variable, and otherwise stays inside its loops until the
\* completion step; when it completes, every selected variable of every
\* file was dealt with, and every analysable one without a fault was
\* analysed in full
C14_VariableFaultNeverAbortsBatch ==
    /\ \A f \in VariableFaults : FaultHandled(f)
    /\ pc = "aborted" => OutsideFaults # {}
    /\ LoopsInRange
    /\ pc = "done" => AllVariablesVisited

\* a batch of two files is complete, a variable of the first file and one of
\* the second had faults, and variables after them were analysed in full
C14_Witness ==
    /\ pc = "done"
    /\ FileCount = 2
    /\ OutsideFaults = {}
    /\ \E f \in VariableFaults, g \in VariableFaults :
          /\ f.file = 1 /\ f.site = "engine_start"
          /\ g.file = 2 /\ g.site = "prepare"
          /\ \E j \in (f.var + 1)..Len(selected_vars) : FullyAnalysed(1, j)
          /\ \E j \in (g.var + 1)..Len(selected_vars) : FullyAnalysed(2, j)
    /\ \E f \in VariableFaults : f.site = "phase"

\* the statistics records analyze_data holds: the overall statistics of
\* calculate_comprehensive_stats and the records of the phases
StatisticsRecords ==
    {analysis_results[key].overall_statistics :
        key \in {k \in DOMAIN analysis_results :
                    analysis_results[k].overall_statistics # EmptyMap}}
    \cup UNION {Range(analysis_results[key].gait_phase_statistics) :
                   key \in DOMAIN analysis_results}

BaseFields ==
    {"count", "mean", "std", "min", "max", "median", "total_count",
     "valid_count", "nan_count", "inf_count", "finite_percentage"}

PercentileFields == {"q25", "q75", "iqr"}

\* C16 as stated: every statistics record has all fourteen fields, also for
\* inputs with no finite value
C16_AllFourteenFields ==
    \A rec \in StatisticsRecords :
        BaseFields \cup PercentileFields \subseteq DOMAIN rec

\* C16, amended: every statistics record has the eleven fields count, mean,
\* std, min, max, median, total_count, valid_count, nan_count, inf_count and
\* finite_percentage; it has q25, q75 and iqr exactly when it was computed
\* from at least one finite value
C16_PercentilesOnlyWithFiniteValues ==
    \A rec \in StatisticsRecords :
        /\ BaseFields \subseteq DOMAIN rec
        /\ rec.valid_count > 0 => PercentileFields \subseteq DOMAIN rec
        /\ rec.valid_count = 0 => PercentileFields \cap DOMAIN rec = {}

\* a variable without a finite value was analysed with its phases: neither
\* its overall record nor the records of its phases hold a finite value
C16_Witness ==
    \E key \in DOMAIN analysis_results :
        /\ analysis_results[key].overall_statistics # EmptyMap
        /\ analysis_results[key].overall_statistics.total_count > 0
        /\ analysis_results[key].overall_statistics.valid_count = 0
        /\ analysis_results[key].gait_phase_statistics # EmptyMap
        /\ \A rec \in Range(analysis_results[key].gait_phase_statistics) :
               rec.valid_count = 0 /\ rec.cycle_count > 0

\* the analysed variables: (file, variable) positions with a result
AnalysedPositions ==
    {pos \in (1..FileCount) \X (1..Len(selected_vars)) :
        KeyAt(pos[1], pos[2]) \in DOMAIN analysis_results}

ColumnAt(pos) == dataframes[pos[1]][selected_vars[pos[2]]].values

FiniteRows(pos) ==
    Cardinality({k \in DOMAIN ColumnAt(pos) : isfinite(ColumnAt(pos)[k])})

\* a percentage valid / total * 100 as a fraction of integers, 0 for no rows
Percentage(valid, total) ==
    IF total = 0 THEN <<0, 1>> ELSE <<100 * valid, total>>

\* p <= q and p >= k for fractions with positive denominators
PercentageLeq(p, q) == p[1] * q[2] <= q[1] * p[2]

AtLeast(p, k) == p[1] >= k * p[2]

\* the grade the claim gives a percentage
ClaimedGrade(p) ==
    CASE AtLeast(p, 95) -> "Excellent"
      [] AtLeast(p, 80) /\ ~AtLeast(p, 95) -> "Good"
      [] AtLeast(p, 60) /\ ~AtLeast(p, 80) -> "Fair"
      [] OTHER -> "Poor"

GradeRank(grade) ==
    CASE grade = "Poor" -> 0 [] grade = "Fair" -> 1 [] grade = "Good" -> 2
      [] grade = "Excellent" -> 3

\* C17: completeness is valid / total * 100, and 0 for no rows; the grade is
\* Excellent from 95, Good from 80, Fair from 60 and Poor below; and no
\* column of a lower or equal completeness has a higher grade
C17_CompletenessAndGrade ==
    \A pos \in AnalysedPositions :
        LET quality == analysis_results[KeyAt(pos[1], pos[2])].data_quality
            total == Len(ColumnAt(pos))
            valid == FiniteRows(pos)
        IN  quality # EmptyMap =>
                /\ quality.total_points = total
                /\ quality.valid_points = valid
                /\ quality.completeness =
                       IF total = 0 THEN FromInt(0)
                       ELSE FMul(FDivFin(FromInt(valid), FromInt(total)),
                                 FromInt(100))
                /\ quality.grade = ClaimedGrade(Percentage(valid, total))
                /\ \A n \in 0..MaxRows : \A v \in 0..n :
                       PercentageLeq(Percentage(v, n), Percentage(valid, total))
                       => GradeRank(ClaimedGrade(Percentage(v, n)))
                          <= GradeRank(quality.grade)

\* a column of 20 rows with 19 finite values was analysed: its completeness
\* is 95 and its grade Excellent
C17_Witness ==
    \E pos \in AnalysedPositions :
        LET quality == analysis_results[KeyAt(pos[1], pos[2])].data_quality
        IN  /\ quality # EmptyMap
            /\ Len(ColumnAt(pos)) = 20
            /\ FiniteRows(pos) = 19
            /\ quality.completeness = FromInt(95)
            /\ quality.grade = "Excellent"

\* the phases of a result that hold data
PhasesWithData(result) ==
    {name \in DOMAIN result.gait_phase_statistics :
        result.gait_phase_statistics[name].count > 0}

\* the sum of the four sub-scores for the column at pos, when the second
\* sub-score is given for more than 10 of the rows counted
SubScores(pos, counted) ==
    LET result == analysis_results[KeyAt(pos[1], pos[2])]
        total == Len(ColumnAt(pos))
        valid == FiniteRows(pos)
        completeness_score ==
            IF total = 0 \/ result.data_quality = EmptyMap THEN 0
            ELSE IF 40 * valid >= 40 * total THEN 40 * total
            ELSE 40 * valid
        phases == Cardinality(PhasesWithData(result))
    IN  FAdd(Rat(completeness_score, IF total = 0 THEN 1 ELSE total),
             FromInt((IF counted > 10 THEN 15 ELSE 0)
                     + (IF valid > 0 THEN 15 ELSE 0)
                     + (IF 6 * phases < 30 THEN 6 * phases ELSE 30)))

ScoredPositions ==
    {pos \in AnalysedPositions :
        "quality_score" \in DOMAIN analysis_results[KeyAt(pos[1], pos[2])]}

ScoreInRange(pos) ==
    /\ FLeq(FromInt(0), analysis_results[KeyAt(pos[1], pos[2])].quality_score)
    /\ FLeq(analysis_results[KeyAt(pos[1], pos[2])].quality_score, FromInt(100))

\* C18 as stated: the second sub-score is given when the raw sample count of
\* the variable exceeds 10
C18_ScoreCountsRawSamples ==
    \A pos \in ScoredPositions :
        /\ analysis_results[KeyAt(pos[1], pos[2])].quality_score
               = SubScores(pos, Len(ColumnAt(pos)))
        /\ ScoreInRange(pos)

\* C18, amended: the score is min(40, 0.4 * completeness) + 15 if the number
\* of finite samples of the variable exceeds 10 + 15 if the overall mean is
\* not NaN + min(30, 6 * number of phases with count > 0), and it is within
\* [0, 100]
C18_ScoreCountsFiniteSamples ==
    \A pos \in ScoredPositions :
        /\ analysis_results[KeyAt(pos[1], pos[2])].quality_score
               = SubScores(pos, FiniteRows(pos))
        /\ ~isnan(analysis_results[KeyAt(pos[1], pos[2])]
                      .overall_statistics.mean) <=> FiniteRows(pos) > 0
        /\ ScoreInRange(pos)

\* a variable of more than 10 samples, of which at most 10 are finite and
\* at least one is, was scored
C18_Witness ==
    \E pos \in ScoredPositions :
        /\ Len(ColumnAt(pos)) > 10
        /\ FiniteRows(pos) \in 1..10
        /\ FLess(FromInt(15),
                 analysis_results[KeyAt(pos[1], pos[2])].quality_score)

-----------------------------------------------------------------------------
(* The program: a trial is loaded, analyze_data finds its cycles, and then  *)
(* the phase statistics are computed, any number of times, while           *)
(* update_config may change the configuration dicts at any time            *)

\* the loaded trials: (run lengths of cycle 1, of cycle 2, data column);
\* every cycle has at least DefaultMinCycleLength samples
ProgramTrials ==
    {<<<<2, 2, 2, 2, 2>>, <<2, 3, 4, 5, 6>>, "ramp">>,
     <<<<2, 3, 4, 5, 6>>, <<2, 3, 4, 5, 6>>, "spike">>}

\* the arguments update_config is called with
ConfigUpdates ==
    {<<"statistics", "ddof", 0>>, <<"statistics", "ddof", 1>>,
     <<"statistics", "remove_outliers", TRUE>>,
     <<"statistics", "remove_outliers", FALSE>>,
     <<"statistics", "min_cycles_required", 4>>,
     <<"validation", "min_cycles_required", 2>>,
     <<"validation", "min_cycles_required", 4>>,
     <<"plot", "dpi", 100>>}

Init ==
    /\ pc = "loaded"
    /\ \E trial \in ProgramTrials :
          /\ state_arr = TwoCycleStates(trial[1], trial[2])
          /\ data_arr = IF trial[3] = "ramp" THEN DataRamp(Len(state_arr))
                        ELSE DataSpike(Len(state_arr))
    /\ cycles = <<>>
    /\ DetectIdle
    /\ ResampleIdle
    /\ ConfigIdle
    /\ StatsIdle
    /\ CallsIdle
    /\ BatchIdle
    /\ LocalsIdle
    /\ AppIdle

\* src/motion_analysis_app.py : analyze_data finds the cycles of the loaded
\* state column with the default length window
DetectCycles ==
    /\ pc = "loaded"
    /\ pc' = "idle"
    /\ scan_cycles' = ScannedCycles(state_arr, min_cycle_length,
                                    max_cycle_length)
    /\ UNCHANGED <<state_cycle, phase_ranges, normalized_cycles>>
    /\ UNCHANGED appVars
    /\ cycles' = find_gait_cycles(state_arr, min_cycle_length, max_cycle_length)
    /\ UNCHANGED <<state_arr, data_arr, min_cycle_length, max_cycle_length,
                   start_idx, end_idx, n_points, resampled, STATISTICS_CONFIG,
                   VALIDATION_CONFIG, phase_stats, prev_stats, last_config,
                   prev_config, n_calls>>
    /\ UNCHANGED callVars
    /\ UNCHANGED batchVars

\* some caller updates a configuration value
UpdateConfig ==
    /\ pc \in {"loaded", "idle"}
    /\ \E args \in ConfigUpdates : update_config(args[1], args[2], args[3])
    /\ UNCHANGED <<pc, state_arr, data_arr, min_cycle_length, max_cycle_length,
                   cycles, start_idx, end_idx, n_points, resampled,
                   phase_stats, prev_stats, last_config, prev_config, n_calls>>
    /\ UNCHANGED callVars
    /\ UNCHANGED batchVars
    /\ UNCHANGED localVars
    /\ UNCHANGED appVars

Next ==
    \/ DetectCycles
    \/ UpdateConfig
    \/ CalculateStatistics

Spec == Init /\ [][Next]_vars

-----------------------------------------------------------------------------
(* Properties of the program *)

C19_ConfiguredMinimumEnforced ==
    [][(/\ n_calls' = n_calls + 1
        /\ Len(cycles) < VALIDATION_CONFIG.min_cycles_required)
       => phase_stats' = EmptyMap]_vars

-----------------------------------------------------------------------------
(* Properties of the phase aggregation on boundary lists of one cycle *)

\* C20: phase statistics are produced only for boundary lists that delimit
\* at least 2 complete cycles, so exactly 2 boundaries, which delimit one
\* cycle, yield no phase statistics
C20_SingleCycleGivesNoStatistics ==
    (pc = "calculated" /\ phase_stats # EmptyMap) => Len(cycles) - 1 >= 2

-----------------------------------------------------------------------------
(* find_state_transitions as a pure function of a state cycle              *)

\* the longest state cycle drawn exhaustively
MaxCycleLen == 5

\* the codes drawn: the five phase codes and one integer outside 0..4
CycleCodes == 0..5

\* a normalised cycle of RESAMPLE_POINTS samples that visits the five phases
FullCycle == [k \in 1..RESAMPLE_POINTS |-> IF k > 84 THEN 4 ELSE (k - 1) \div 21]

FindStateTransitions ==
    /\ pc = "init"
    /\ pc' = "scanned"
    /\ phase_ranges' = find_state_transitions(state_cycle)
    /\ UNCHANGED <<state_arr, data_arr, min_cycle_length, max_cycle_length,
                   cycles, start_idx, end_idx, n_points, resampled,
                   STATISTICS_CONFIG, VALIDATION_CONFIG, phase_stats,
                   prev_stats, last_config, prev_config, n_calls>>
    /\ UNCHANGED callVars
    /\ UNCHANGED batchVars
    /\ UNCHANGED <<scan_cycles, state_cycle, normalized_cycles>>
    /\ UNCHANGED appVars

InitTransitions ==
    /\ pc = "init"
    /\ state_cycle \in SeqsUpTo(CycleCodes, MaxCycleLen) \cup {FullCycle}
    /\ phase_ranges = EmptyMap
    /\ scan_cycles = <<>>
    /\ normalized_cycles = <<>>
    /\ AppIdle
    /\ state_arr = <<>>
    /\ data_arr = <<>>
    /\ cycles = <<>>
    /\ DetectIdle
    /\ ResampleIdle
    /\ ConfigIdle
    /\ StatsIdle
    /\ CallsIdle
    /\ BatchIdle

NextTransitions == FindStateTransitions

SpecTransitions == InitTransitions /\ [][NextTransitions]_vars

-----------------------------------------------------------------------------
(* Properties of find_state_transitions *)

\* the state cycle passes validate_state_data: codes within 0..4, two of them
\* different
ValidCycle == validate_state_data(ToFloats(state_cycle)).ok

\* the ranges returned, each with the phase it is listed under and its place
\* in that phase's list
ListedRanges ==
    UNION {{<<name, k>> : k \in 1..Len(phase_ranges[name])} :
              name \in DOMAIN phase_ranges}

RangeStart(r) == phase_ranges[r[1]][r[2]][1]
RangeEnd(r) == phase_ranges[r[1]][r[2]][2]

\* the range r is a maximal run of one code, listed under that code's phase
IsMaximalRun(r) ==
    LET s == RangeStart(r)
        e == RangeEnd(r)
    IN  /\ 0 <= s /\ s <= e /\ e <= Len(state_cycle) - 1
        /\ \A i \in s..e : state_cycle[i + 1] = state_cycle[s + 1]
        /\ get_state_name(state_cycle[s + 1]) = r[1]
        /\ s > 0 => state_cycle[s] # state_cycle[s + 1]
        /\ e < Len(state_cycle) - 1 => state_cycle[e + 2] # state_cycle[e + 1]

\* C22: for every state cycle that passes validation the ranges returned by
\* find_state_transitions partition the index set 0..L-1: they are pairwise
\* disjoint, their union is every index, each satisfies s <= e and covers a
\* maximal run of one code, adjacent ranges carry different codes, and each
\* phase's list is in increasing index order.
C22_RangesPartitionTheCycle ==
    (pc = "scanned" /\ ValidCycle) =>
        /\ \A r \in ListedRanges : IsMaximalRun(r)
        /\ \A r, q \in ListedRanges :
              r # q => (RangeEnd(r) < RangeStart(q) \/ RangeEnd(q) < RangeStart(r))
        /\ \A i \in 0..(Len(state_cycle) - 1) :
              \E r \in ListedRanges : RangeStart(r) <= i /\ i <= RangeEnd(r)
        /\ \A r, q \in ListedRanges :
              RangeStart(q) = RangeEnd(r) + 1 => r[1] # q[1]
        /\ \A r, q \in ListedRanges :
              (r[1] = q[1] /\ r[2] < q[2]) => RangeEnd(r) < RangeStart(q)

\* a valid cycle with a phase visited twice has been scanned
C22_Witness ==
    /\ pc = "scanned"
    /\ ValidCycle
    /\ \E name \in DOMAIN phase_ranges : Len(phase_ranges[name]) >= 2
    /\ Cardinality(ListedRanges) >= 3

\* C23: find_state_transitions returns the empty mapping exactly when state
\* validation of its argument fails, which includes an argument that holds a
\* single repeated code; otherwise every phase listed has at least one range.
C23_EmptyExactlyWhenInvalid ==
    pc = "scanned" =>
        /\ phase_ranges = EmptyMap <=> ~ValidCycle
        /\ Cardinality(Range(state_cycle)) <= 1 => phase_ranges = EmptyMap
        /\ \A name \in DOMAIN phase_ranges : Len(phase_ranges[name]) >= 1

\* a cycle of one repeated code has been scanned and gave no range
C23_Witness ==
    /\ pc = "scanned"
    /\ Len(state_cycle) >= 2
    /\ Cardinality(Range(state_cycle)) = 1
    /\ Range(state_cycle) \subseteq 0..4
    /\ phase_ranges = EmptyMap

-----------------------------------------------------------------------------
(* Properties of the normalisation loop of the phase statistics *)

\* the boundary pairs (cycles[i], cycles[i + 1]) the last call normalised
ProcessedPairs ==
    {i \in DOMAIN normalized_cycles : normalized_cycles[i].kind = "cycle"}

\* the state grid resample_cycle gives, rounded and clipped to 0..4
RoundedAndClipped(grid) ==
    Tuple([k \in DOMAIN grid |-> np_clip(CodeOf(grid[k]), 0, 4)])

\* C24: for each boundary pair (start, end) processed by
\* calculate_dynamic_gait_phase_statistics the normalised data and state equal
\* resample_cycle(data, start, end, N) (the state rounded and clipped to 0..4),
\* the segment being the inclusive range [start, end].
C24_NormalizedAsResampleCycle ==
    pc = "calculated" =>
        \A i \in ProcessedPairs :
            /\ normalized_cycles[i].data =
                   resample_cycle(data_arr, cycles[i], cycles[i + 1],
                                  RESAMPLE_POINTS)
            /\ normalized_cycles[i].state =
                   RoundedAndClipped(
                       resample_cycle(state_arr, cycles[i], cycles[i + 1],
                                      RESAMPLE_POINTS))

\* the state samples behind the labels of pair i (line 60), and the state
\* samples at the raw indices of the data samples of pair i (line 59)
UsedStateSamples(i) ==
    PySlice(validate_state_data(state_arr).clean, cycles[i], cycles[i + 1])

AlignedStateSamples(i) ==
    RoundedFinite(PySlice(state_arr, cycles[i], cycles[i + 1]))

\* C25: data and phase label stay index-aligned: for every processed cycle
\* the labels are derived from the state samples at the same raw indices as
\* the data samples, also when the state sequence holds non-finite entries.
C25_LabelsAlignedWithData ==
    pc = "calculated" =>
        \A i \in ProcessedPairs : UsedStateSamples(i) = AlignedStateSamples(i)

\* the codes of the validated state sequence within the processed intervals
\* [start, end)
RawCodesProcessed ==
    UNION {Range(UsedStateSamples(i)) : i \in ProcessedPairs}

\* C28: resampling never invents a phase: every phase reported with count > 0
\* is the phase of a code that occurs in the validated state sequence within a
\* processed interval [start, end).
C28_NoInventedPhase ==
    pc = "calculated" =>
        \A name \in DOMAIN phase_stats :
            phase_stats[name].count > 0 =>
                \E code \in RawCodesProcessed : get_state_name(code) = name

\* the cycles whose state find_state_transitions segments, and the finite
\* values they hold at the grid points labelled with the phase
PooledPairs ==
    {i \in ProcessedPairs : Cardinality(Range(normalized_cycles[i].state)) >= 2}

RECURSIVE BucketSize(_, _)
BucketSize(name, pairs) ==
    IF pairs = {} THEN 0
    ELSE
        LET i == CHOOSE p \in pairs : TRUE
            c == normalized_cycles[i]
        IN  Cardinality({k \in DOMAIN c.state :
                            /\ get_state_name(c.state[k]) = name
                            /\ isfinite(c.data[k])})
            + BucketSize(name, pairs \ {i})

CoverageOf(name) ==
    IF name \in DOMAIN phase_stats THEN phase_stats[name].data_coverage
    ELSE FromInt(0)

CoverageTotal ==
    FAdd(CoverageOf(PhaseNames[1]),
         FAdd(CoverageOf(PhaseNames[2]),
              FAdd(CoverageOf(PhaseNames[3]),
                   FAdd(CoverageOf(PhaseNames[4]), CoverageOf(PhaseNames[5])))))

\* C27: in every record cycle_count is the number of boundary pairs with
\* interval length >= 2, all of them normalised; data_coverage is
\* bucketSize / (cycle_count * N) * 100 with bucketSize the number of finite
\* values pooled for the phase; each data_coverage lies in [0, 100] and the
\* data_coverage values of all phases sum to at most 100.
C27_CycleCountAndCoverage ==
    pc = "calculated" =>
        /\ \A name \in DOMAIN phase_stats :
              LET record == phase_stats[name]
              IN  /\ record.cycle_count = Cardinality(ProcessedPairs)
                  /\ ProcessedPairs =
                         {i \in 1..(Len(cycles) - 1) :
                             cycles[i + 1] - cycles[i] >= 2}
                  /\ record.data_coverage =
                         Rat(BucketSize(name, PooledPairs) * 100,
                             record.cycle_count * RESAMPLE_POINTS)
                  /\ FLeq(FromInt(0), record.data_coverage)
                  /\ FLeq(record.data_coverage, FromInt(100))
        /\ DOMAIN phase_stats \subseteq Range(PhaseNames)
        /\ phase_stats # EmptyMap => FLeq(CoverageTotal, FromInt(100))

\* records of a trial one of whose boundary pairs was skipped and whose data
\* holds NaN, so that less than the whole grid is pooled
C27_Witness ==
    /\ pc = "calculated"
    /\ phase_stats # EmptyMap
    /\ Cardinality(ProcessedPairs) < Len(cycles) - 1
    /\ FLess(FromInt(0), CoverageTotal)
    /\ FLess(CoverageTotal, FromInt(100))

-----------------------------------------------------------------------------
(* resample_cycle on segments with non-finite values *)

\* C26: when the segment passed to resample_cycle holds non-finite values
\* (NaN, +Inf or -Inf) together with at least 2 finite values, the output is
\* interpolated from the finite pairs only: every output element is finite
\* and lies within the range of the finite values of the segment.
C26_InterpolatedFromFiniteOnly ==
    ( /\ pc = "resampled"
      /\ ValidSegment
      /\ FiniteInSegment # SegmentPositions
      /\ Cardinality(FiniteInSegment) >= 2 )
    => \A i \in DOMAIN resampled :
          /\ isfinite(resampled[i])
          /\ \E m \in FiniteInSegment : FLeq(data_arr[m], resampled[i])
          /\ \E m \in FiniteInSegment : FLeq(resampled[i], data_arr[m])

-----------------------------------------------------------------------------
(* src/motion_analysis_app.py : load_files, run_analysis_thread and the    *)
(* analyze_data threads, interleaved                                        *)

\* the most files one dialog selects, the most threads ever started and the
\* most calls of load_files
MaxFiles == 2
MaxWorkers == 2
MaxLoads == 2

\* what happens to a selected file in the loop of lines 364-417
Fates == {"loaded", "bad_path", "read_error", "invalid_table"}

\* pd.read_csv(path): the table a file holds
read_csv(path) == IF path = PathA THEN TrialA ELSE TrialB

\* the selections of the file dialog: each file once, with its fate
Selections ==
    {s \in SeqsUpTo([path : {PathA, PathB}, fate : Fates], MaxFiles) :
        \A i, j \in DOMAIN s : i # j => s[i].path # s[j].path}

RECURSIVE LoadedTables(_)
LoadedTables(selection) ==
    IF selection = <<>> THEN <<>>
    ELSE IF selection[1].fate = "loaded"
    THEN <<read_csv(selection[1].path)>> \o LoadedTables(Tail(selection))
    ELSE LoadedTables(Tail(selection))

\* the rest of the state is left alone by the window
AppFrame ==
    /\ UNCHANGED <<pc, state_arr, data_arr, min_cycle_length, max_cycle_length,
                   cycles, start_idx, end_idx, n_points, resampled,
                   STATISTICS_CONFIG, VALIDATION_CONFIG, phase_stats,
                   prev_stats, last_config, prev_config, n_calls>>
    /\ UNCHANGED callVars
    /\ UNCHANGED localVars
    /\ UNCHANGED <<file_idx, var_idx, analysis_results, results_data, faulted>>

\* load_files, lines 334-462, run by the main loop in one piece; crash is an
\* exception outside the per-file try statement (lines 458-462)
LoadFiles ==
    /\ n_loads < MaxLoads
    /\ n_loads' = n_loads + 1
    /\ \E selection \in Selections, crash \in BOOLEAN :
          /\ file_paths' = SeqMap(selection, LAMBDA f : f.path)
          /\ IF selection = <<>> THEN
                 UNCHANGED <<dataframes, selected_vars, analyze_button>>
             ELSE IF crash THEN
                 /\ dataframes' = <<>>
                 /\ analyze_button' = "disabled"
                 /\ UNCHANGED selected_vars
             ELSE IF LoadedTables(selection) = <<>> THEN
                 /\ dataframes' = <<>>
                 /\ UNCHANGED <<selected_vars, analyze_button>>
             ELSE
                 /\ dataframes' = LoadedTables(selection)
                 /\ analyze_button' = "normal"
                 /\ selected_vars' = <<>>
    /\ UNCHANGED <<workers, reported>>
    /\ AppFrame

\* add_to_select_list, lines 484-491: a listed variable is selected
SelectVariable ==
    /\ dataframes # <<>>
    /\ selected_vars = <<>>
    /\ selected_vars' = <<"knee_angle_r">>
    /\ UNCHANGED <<file_paths, dataframes, analyze_button, workers, reported,
                   n_loads>>
    /\ AppFrame

\* run_analysis_thread, lines 513-516: the command of the analyze button,
\* which a disabled button does not run
RunAnalysisThread ==
    /\ analyze_button = "normal"
    /\ Len(workers) < MaxWorkers
    /\ analyze_button' = "disabled"
    /\ workers' = Append(workers, [at |-> "started", paths |-> <<>>,
                                   tables |-> <<>>, turn |-> 0])
    /\ UNCHANGED <<file_paths, dataframes, selected_vars, reported, n_loads>>
    /\ AppFrame

\* analyze_data, lines 520-539: the early returns, the reset of the results
\* and the zip of the two lists as they are now
WorkerBegin(w) ==
    /\ workers[w].at = "started"
    /\ \E fault \in BOOLEAN :
          IF fault \/ selected_vars = <<>> \/ dataframes = <<>>
          THEN /\ workers' = [workers EXCEPT ![w].at = "finally"]
               /\ UNCHANGED reported
          ELSE /\ workers' = [workers EXCEPT ![w].at = "loop",
                                             ![w].paths = file_paths,
                                             ![w].tables = dataframes]
               /\ reported' = <<>>
    /\ UNCHANGED <<file_paths, dataframes, selected_vars, analyze_button,
                   n_loads>>
    /\ AppFrame

\* one turn of the loop of line 539: the results of the table are written
\* under the name of the path zip pairs it with
WorkerFile(w) ==
    /\ workers[w].at = "loop"
    /\ LET turn == workers[w].turn
           last == IF Len(workers[w].paths) < Len(workers[w].tables)
                   THEN Len(workers[w].paths) ELSE Len(workers[w].tables)
       IN  \E fault \in BOOLEAN :
              IF fault \/ turn >= last
              THEN /\ workers' = [workers EXCEPT ![w].at = "finally"]
                   /\ UNCHANGED reported
              ELSE /\ workers' = [workers EXCEPT ![w].turn = turn + 1]
                   /\ reported' =
                          Append(reported,
                                 [file |-> basename(workers[w].paths[turn + 1]),
                                  table |-> workers[w].tables[turn + 1]])
    /\ UNCHANGED <<file_paths, dataframes, selected_vars, analyze_button,
                   n_loads>>
    /\ AppFrame

\* the finally clause of lines 612-613, on every way out of analyze_data
WorkerFinish(w) ==
    /\ workers[w].at = "finally"
    /\ workers' = [workers EXCEPT ![w].at = "finished"]
    /\ analyze_button' = "normal"
    /\ UNCHANGED <<file_paths, dataframes, selected_vars, reported, n_loads>>
    /\ AppFrame

InitApp ==
    /\ pc = "window"
    /\ state_arr = <<>>
    /\ data_arr = <<>>
    /\ cycles = <<>>
    /\ DetectIdle
    /\ ResampleIdle
    /\ ConfigIdle
    /\ StatsIdle
    /\ CallsIdle
    /\ BatchIdle
    /\ LocalsIdle
    /\ AppIdle

NextApp ==
    \/ LoadFiles
    \/ SelectVariable
    \/ RunAnalysisThread
    \/ \E w \in DOMAIN workers : WorkerBegin(w)
    \/ \E w \in DOMAIN workers : WorkerFile(w)
    \/ \E w \in DOMAIN workers : WorkerFinish(w)

SpecApp == InitApp /\ [][NextApp]_vars

-----------------------------------------------------------------------------
(* Properties of the application window *)

\* the analyze_data threads that have not finished
RunningWorkers == {w \in DOMAIN workers : workers[w].at # "finished"}

\* C29: at most one analyze_data worker thread is running at any time: the
\* analyze button is disabled from the moment run_analysis_thread starts a
\* worker until that worker finishes, under every interleaving of the worker
\* with load_files and run_analysis_thread.
C29_SingleWorker ==
    /\ Cardinality(RunningWorkers) <= 1
    /\ RunningWorkers # {} => analyze_button = "disabled"

\* C30: after load_files, file_paths and dataframes have the same length and
\* dataframes[i] is the table loaded from file_paths[i], so analyze_data
\* reports each table under the name of the file it was loaded from, also
\* when some of the selected files are rejected or fail to load.
C30_TablesAlignedWithPaths ==
    /\ Len(file_paths) = Len(dataframes)
    /\ \A i \in DOMAIN dataframes : dataframes[i] = read_csv(file_paths[i])
    /\ \A i \in DOMAIN reported :
          \E path \in {PathA, PathB} :
              /\ reported[i].file = basename(path)
              /\ reported[i].table = read_csv(path)

=============================================================================
